---- MODULE Spec2Model ----
(***************************************************************************)
(* A model of ct/crypto/my_asn1/types.py: the schema-driven ASN.1 codec.   *)
(* Byte strings are sequences over 0..255; Python values are records whose *)
(* field py names the Python type (None, bool, int, str, list, dict, or an *)
(* instance of one of the ASN.1 classes).  Raised exceptions are results   *)
(* whose field st names the exception class.                               *)
(***************************************************************************)
EXTENDS Integers, Sequences, FiniteSets, TLC

VARIABLES
    pc,       \* position of the driver: what the last operation was
    obj,      \* the value instance under work (None when there is none)
    wire,     \* the byte buffer produced by encode() and handed to decode()
    res,      \* result of the last operation: [st, value, rest]
    arg,      \* the inputs of the last operation
    classes,  \* the tags attribute of every class, dynamically derived ones too
    cls_components, \* the components attribute of every Sequence class
    heap      \* the objects that are reached through references

vars == <<pc, obj, wire, res, arg, classes, cls_components, heap>>

----------------------------------------------------------------------------
(* Bounds of the model.                                                    *)

\* Largest magnitude of the small integers fed to Integer.
MaxInt == 1
\* Longest list given to SequenceOf / SetOf.
MaxListLen == 2
\* Number of classes that explicit()/implicit() may create dynamically.
MaxDerived == 2
\* Largest tag number used by a dynamic derivation.
MaxTagNumber == 1
\* Longest prefix a buffer is cut down to.
MaxTruncate == 3
\* Number of objects the heap may hold.
MaxHeap == 5
\* Largest magnitude of the integers given to encode_int, besides the
\* values around the byte boundaries.
MaxPrimInt == 300
\* Largest length given to encode_length, besides the values around the
\* byte boundaries.
MaxLength == 300
\* Longest content handed to the content decoders.
MaxContentLen == 2

----------------------------------------------------------------------------
(* Python values.                                                          *)

None == [py |-> "None"]
\* The payload of a value is held in a field named after its Python type.
PyBool(b) == [py |-> "bool", bool |-> b]
PyInt(i) == [py |-> "int", int |-> i]
PyStr(s) == [py |-> "str", str |-> s]
PyList(l) == [py |-> "list", list |-> l]
\* A dict is a set of <<key, value>> pairs with distinct keys.
PyDict(d) == [py |-> "dict", dict |-> d]

Keys(d) == {p[1] : p \in d}
Get(d, k) == IF k \in Keys(d) THEN (CHOOSE p \in d : p[1] = k)[2] ELSE None
Put(d, k, v) == {p \in d : p[1] # k} \cup {<<k, v>>}

\* Results of operations: a returned value with the remaining bytes, or a
\* raised exception.
Ok(v, rest) == [st |-> "ok", value |-> v, rest |-> rest]
Raise(e) == [st |-> e, value |-> None, rest |-> <<>>]

----------------------------------------------------------------------------
(* Integer and length primitives.                                          *)

RECURSIVE IntBytes(_)
\* The loop of encode_int: the bytes of value, least significant first.
IntBytes(value) ==
    IF value = 0 \/ value = -1 THEN <<>>
    ELSE <<value % 256>> \o IntBytes(value \div 256)

Reverse(s) == [i \in 1..Len(s) |-> s[Len(s) + 1 - i]]

\* The signed branch of encode_int without the byte that carries the sign.
EncodeIntSigned_NoSignByte(value, int_bytes) == int_bytes

EncodeIntSigned(value, int_bytes) ==
    IF value < 0 /\ int_bytes[Len(int_bytes)] <= 127
        THEN Append(int_bytes, 255)
    ELSE IF value >= 0 /\ int_bytes[Len(int_bytes)] > 127
        THEN Append(int_bytes, 0)
    ELSE int_bytes

encode_int(value, signed) ==
    IF ~signed /\ value < 0 THEN Raise("ValueError")
    ELSE IF value = 0 THEN Ok(<<0>>, <<>>)
    ELSE IF value = -1 THEN Ok(<<255>>, <<>>)
    ELSE LET Signed(int_bytes) ==
                 IF signed THEN EncodeIntSigned(value, int_bytes)
                 ELSE int_bytes
         IN  Ok(Reverse(Signed(IntBytes(value))), <<>>)

RECURSIVE Accumulate(_, _)
\* The loop of decode_int: leading <<= 8; leading += b.
Accumulate(leading, int_bytes) ==
    IF int_bytes = <<>> THEN leading
    ELSE Accumulate(leading * 256 + Head(int_bytes), Tail(int_bytes))

\* decode_int without the checks of the leading byte.
decode_int_AnyLeading(buf, signed) ==
    IF buf = <<>> THEN Raise("ASN1Error")
    ELSE Ok(Accumulate(IF signed /\ Head(buf) > 127 THEN Head(buf) - 256
                       ELSE Head(buf), Tail(buf)), <<>>)

decode_int(buf, signed) ==
    IF buf = <<>> THEN Raise("ASN1Error")
    ELSE LET leading == Head(buf)
             int_bytes == Tail(buf)
         IN  IF int_bytes # <<>> /\ leading = 0 /\ int_bytes[1] < 128
                 THEN Raise("ASN1Error")
             ELSE IF int_bytes # <<>> /\ signed /\ leading = 255
                     /\ int_bytes[1] >= 128
                 THEN Raise("ASN1Error")
             ELSE Ok(Accumulate(IF signed /\ leading > 127 THEN leading - 256
                                ELSE leading, int_bytes), <<>>)

_MULTIBYTE_LENGTH == 128
_MULTIBYTE_LENGTH_MASK == 127

encode_length(length) ==
    IF length <= 127 THEN <<length>>
    ELSE LET Prefixed(encoded_length) ==
                 <<_MULTIBYTE_LENGTH + Len(encoded_length)>> \o encoded_length
         IN  Prefixed(encode_int(length, FALSE).value)

Slice(buf, from, to) == SubSeq(buf, from, IF to > Len(buf) THEN Len(buf) ELSE to)
Drop(buf, n) == Slice(buf, n + 1, Len(buf))
Take(buf, n) == Slice(buf, 1, n)

read_length(buf) ==
    IF buf = <<>> THEN Raise("ASN1Error")
    ELSE LET first == Head(buf)
             rest == Tail(buf)
         IN  IF first <= 127 THEN Ok(first, rest)
             ELSE LET length == first % (_MULTIBYTE_LENGTH_MASK + 1)
                  IN  IF Len(rest) < length THEN Raise("ASN1Error")
                      ELSE LET Decoded(d) ==
                                   IF d.st = "ok"
                                       THEN Ok(d.value, Drop(rest, length))
                                   ELSE d
                           IN  Decoded(decode_int(Take(rest, length), FALSE))

----------------------------------------------------------------------------
(* Tags (ct.crypto.my_asn1.tag): one identifier byte made of the class     *)
(* (2 bits), the constructed flag (1 bit) and the number (5 bits).         *)

UNIVERSAL == 0
APPLICATION == 64
CONTEXT_SPECIFIC == 128
PRIVATE == 192
PRIMITIVE == 0
CONSTRUCTED == 32

Tag(number, tag_class, encoding) ==
    [number |-> number, tag_class |-> tag_class, encoding |-> encoding]

TagValue(t) == <<t.tag_class + t.encoding + t.number>>
TagLen(t) == Len(TagValue(t))

\* Tag.read: the tag at the head of buf and the bytes after it.
TagRead(buf) ==
    IF buf = <<>> THEN Raise("ASN1TagError")
    ELSE Ok(Tag(Head(buf) % 32, (Head(buf) \div 64) * 64,
                ((Head(buf) \div 32) % 2) * 32), Tail(buf))

----------------------------------------------------------------------------
(* Tagging operators: each returns the new value of the tags attribute.    *)

UniversalCall(number, encoding, tags) ==
    IF tags # <<>> THEN Raise("TypeError")
    ELSE Ok(<<Tag(number, UNIVERSAL, encoding)>>, <<>>)

ExplicitCall(number, tag_class, tags) ==
    IF tag_class = UNIVERSAL THEN Raise("TypeError")
    ELSE Ok(Append(tags, Tag(number, tag_class, CONSTRUCTED)), <<>>)

ImplicitCall(number, tag_class, tags) ==
    IF tag_class = UNIVERSAL THEN Raise("TypeError")
    ELSE IF tags = <<>> THEN Raise("TypeError")
    ELSE Ok([tags EXCEPT ![Len(tags)] =
                 Tag(number, tag_class, tags[Len(tags)].encoding)], <<>>)

----------------------------------------------------------------------------
(* The classes.  A class is identified by its name; classes[i] holds the   *)
(* name, the base ASN.1 type it derives from and its tags attribute.       *)

ClassNames ==
    <<"Boolean", "Integer", "OctetString", "BitString", "Any",
      "IntegerExplicit0", "BooleanImplicit1", "IntegerImplicit1",
      "DummyChoice", "SequenceOfInteger", "SetOfInteger",
      "DummySequence", "OptionalSequence">>

Class(name, root, tags) == [name |-> name, root |-> root, tags |-> tags]

BooleanTags == UniversalCall(1, PRIMITIVE, <<>>).value
IntegerTags == UniversalCall(2, PRIMITIVE, <<>>).value
OctetStringTags == UniversalCall(4, PRIMITIVE, <<>>).value
BitStringTags == UniversalCall(3, PRIMITIVE, <<>>).value
SequenceOfTags == UniversalCall(16, CONSTRUCTED, <<>>).value
SetOfTags == UniversalCall(17, CONSTRUCTED, <<>>).value
SequenceTags == UniversalCall(16, CONSTRUCTED, <<>>).value

InitClasses ==
    <<Class("Boolean", "Boolean", BooleanTags),
      Class("Integer", "Integer", IntegerTags),
      Class("OctetString", "ASN1String", OctetStringTags),
      Class("BitString", "BitString", BitStringTags),
      Class("Any", "Any", <<>>),
      Class("IntegerExplicit0", "Integer",
            ExplicitCall(0, CONTEXT_SPECIFIC, IntegerTags).value),
      Class("BooleanImplicit1", "Boolean",
            ImplicitCall(1, CONTEXT_SPECIFIC, BooleanTags).value),
      Class("IntegerImplicit1", "Integer",
            ImplicitCall(1, CONTEXT_SPECIFIC, IntegerTags).value),
      Class("DummyChoice", "Choice", <<>>),
      Class("SequenceOfInteger", "SequenceOf", SequenceOfTags),
      Class("SetOfInteger", "SetOf", SetOfTags),
      Class("DummySequence", "Sequence", SequenceTags),
      Class("OptionalSequence", "Sequence", SequenceTags),
      Class("HolderSequence", "Sequence", SequenceTags)>>

\* The first class of that name: classes of one name have the same base
\* and the same tags.
ClassIndex(cls) == CHOOSE i \in 1..Len(classes) : classes[i].name = cls
Tags(cls) == classes[ClassIndex(cls)].tags
Kind(cls) == classes[ClassIndex(cls)].root

\* The component attribute of the Repeated classes.
ElementType(cls) == "Integer"

\* The components attribute of the Choice classes: name -> type.
ChoiceComponents(cls) ==
    {<<"a", "Integer">>, <<"b", "Boolean">>, <<"c", "IntegerExplicit0">>}

\* MetaChoice.__new__: the map from the outermost tag of a component to
\* its name.
tag_map(cls) ==
    {<<Tags(p[2])[Len(Tags(p[2]))], p[1]>> : p \in ChoiceComponents(cls)}

\* An instance of class cls holding _value, in a field named after the
\* Python type of the _value of its kind.
Inst(cls, value) ==
    CASE Kind(cls) = "Boolean" -> [py |-> "inst", type |-> cls, bool |-> value]
      [] Kind(cls) = "Integer" -> [py |-> "inst", type |-> cls, int |-> value]
      [] Kind(cls) \in {"ASN1String", "BitString", "Any"} ->
            [py |-> "inst", type |-> cls, str |-> value]
      [] Kind(cls) \in {"SequenceOf", "SetOf"} ->
            [py |-> "inst", type |-> cls, list |-> value]
      [] Kind(cls) \in {"Choice", "Sequence"} ->
            [py |-> "inst", type |-> cls, dict |-> value]
\* An instance of Any also holds _decoded_value.
AnyInst(cls, value, decoded_value) ==
    [py |-> "inst", type |-> cls, str |-> value,
     decoded_value |-> decoded_value]

\* The payload of a Python value; for an instance, its _value.
Val(x) ==
    CASE x.py = "bool" -> x.bool
      [] x.py = "int" -> x.int
      [] x.py = "str" -> x.str
      [] x.py = "list" -> x.list
      [] x.py = "dict" -> x.dict
      [] x.py = "inst" ->
            CASE Kind(x.type) = "Boolean" -> x.bool
              [] Kind(x.type) = "Integer" -> x.int
              [] Kind(x.type) \in {"ASN1String", "BitString", "Any"} -> x.str
              [] Kind(x.type) \in {"SequenceOf", "SetOf"} -> x.list
              [] Kind(x.type) \in {"Choice", "Sequence"} -> x.dict

IsInst(x) == x.py = "inst"
IsInstOfKind(x, kinds) == x.py = "inst" /\ Kind(x.type) \in kinds
TypeIs(x, cls) == x.py = "inst" /\ x.type = cls

RECURSIVE Call(_, _)
\* The constructor, encode and read call each other through the values
\* they nest: they are entered through Call, which dispatches on the method
\* name to New_impl, encode_impl and read_impl.

\* cls(value=value, serialized_value=serialized_value, strict=strict)
New(cls, value, serialized_value, strict) ==
    Call("__init__", <<cls, value, serialized_value, strict>>)

\* self.encode()
encode(self) == Call("encode", <<self>>)

\* cls.read(buf, strict=strict)
read(cls, buf, strict) == Call("read", <<cls, buf, strict>>)

\* Component.__init__
Component(name, value_type, optional, default, defined_by, lookup) ==
    LET Attributes(d) ==
            [name |-> name, value_type |-> value_type, default |-> d,
             encoded_default |->
                 IF d # None THEN PyStr(encode(d).value) ELSE None,
             optional |-> optional \/ d # None,
             defined_by |-> defined_by, lookup |-> lookup]
    IN  Attributes(IF default = None \/ TypeIs(default, value_type)
                       THEN default
                   ELSE New(value_type, default, None, TRUE).value)

\* The arguments of the Component(...) calls that make the components
\* attribute of the Sequence classes, in declared order.
ComponentArgs(cls) ==
    IF cls = "DummySequence" THEN
        <<[name |-> "sel", value_type |-> "Integer", optional |-> FALSE,
           default |-> None, defined_by |-> None, lookup |-> None],
          [name |-> "flag", value_type |-> "Boolean", optional |-> FALSE,
           default |-> PyBool(FALSE), defined_by |-> None, lookup |-> None],
          [name |-> "opt", value_type |-> "OctetString", optional |-> TRUE,
           default |-> None, defined_by |-> None, lookup |-> None],
          [name |-> "val", value_type |-> "Any", optional |-> TRUE,
           default |-> None, defined_by |-> PyStr("sel"),
           lookup |-> {<<1, "Integer">>, <<2, "Boolean">>}]>>
    ELSE IF cls = "OptionalSequence" THEN
        <<[name |-> "flag", value_type |-> "Boolean", optional |-> TRUE,
           default |-> None, defined_by |-> None, lookup |-> None],
          [name |-> "opt", value_type |-> "OctetString", optional |-> FALSE,
           default |-> PyStr(<<120>>), defined_by |-> None,
           lookup |-> None]>>
    ELSE
        <<[name |-> "items", value_type |-> "SequenceOfInteger",
           optional |-> FALSE, default |-> PyList(<<PyInt(1)>>),
           defined_by |-> None, lookup |-> None],
          [name |-> "num", value_type |-> "IntegerExplicit0",
           optional |-> TRUE, default |-> None, defined_by |-> None,
           lookup |-> None]>>

\* The Sequence classes.
SequenceClasses == {"DummySequence", "OptionalSequence", "HolderSequence"}

\* The components attributes as the class definitions build them.
InitComponents ==
    [cls \in SequenceClasses |->
        [i \in 1..Len(ComponentArgs(cls)) |->
            LET a == ComponentArgs(cls)[i]
            IN  Component(a.name, a.value_type, a.optional, a.default,
                          a.defined_by, a.lookup)]]

\* The components attribute of a Sequence class.
SequenceComponents(cls) == cls_components[cls]

\* MetaSequence.__new__: the names of the components.
key_map(cls) ==
    {SequenceComponents(cls)[i].name : i \in 1..Len(SequenceComponents(cls))}

----------------------------------------------------------------------------
(* Encoding.                                                               *)

RECURSIVE Join(_)
\* "".join(ret)
Join(ret) == IF ret = <<>> THEN <<>> ELSE Head(ret) \o Join(Tail(ret))

RECURSIVE StrLess(_, _)
\* Python's < on byte strings.
StrLess(a, b) ==
    IF a = <<>> THEN b # <<>>
    ELSE IF b = <<>> THEN FALSE
    ELSE IF a[1] # b[1] THEN a[1] < b[1]
    ELSE StrLess(Tail(a), Tail(b))

RECURSIVE SortInsert(_, _)
SortInsert(x, sorted) ==
    IF sorted = <<>> THEN <<x>>
    ELSE IF StrLess(x, Head(sorted)) THEN <<x>> \o sorted
    ELSE <<Head(sorted)>> \o SortInsert(x, Tail(sorted))

RECURSIVE Sort(_)
\* ret.sort()
Sort(ret) ==
    IF ret = <<>> THEN <<>> ELSE SortInsert(Head(ret), Sort(Tail(ret)))

RECURSIVE WrapTags(_, _)
\* The loop of Abstract.encode: wrap encoded_value in the tags, innermost
\* (first) tag first.
WrapTags(encoded_value, tags) ==
    IF tags = <<>> THEN encoded_value
    ELSE WrapTags(TagValue(Head(tags)) \o encode_length(Len(encoded_value))
                      \o encoded_value, Tail(tags))

RECURSIVE BitsToInt(_, _)
\* int(bits, 2) for a string of "0" (48) and "1" (49)
BitsToInt(acc, bits) ==
    IF bits = <<>> THEN acc
    ELSE BitsToInt(acc * 2 + (Head(bits) - 48), Tail(bits))

BitStringEncodeValue(value) ==
    LET Packed(pad, padded_bits) ==
            <<pad>> \o [i \in 1..(Len(padded_bits) \div 8) |->
                           BitsToInt(0, SubSeq(padded_bits, 8 * i - 7, 8 * i))]
        Padded(pad) == Packed(pad, value \o [i \in 1..pad |-> 48])
    IN  Padded((8 - (Len(value) % 8)) % 8)

RECURSIVE EncodeAll(_)
\* [x.encode() for x in self._value]; the first failure is raised.
EncodeAll(values) ==
    IF values = <<>> THEN Ok(<<>>, <<>>)
    ELSE LET Appended(e, r) ==
                 IF r.st # "ok" THEN r ELSE Ok(<<e.value>> \o r.value, <<>>)
             Encoded(e) ==
                 IF e.st # "ok" THEN e
                 ELSE Appended(e, EncodeAll(Tail(values)))
         IN  Encoded(encode(Head(values)))

SequenceOfEncodeValue(self) ==
    LET Joined(ret) == IF ret.st # "ok" THEN ret ELSE Ok(Join(ret.value), <<>>)
    IN  Joined(EncodeAll(Val(self)))

\* SetOf._encode_value without the sort.
SetOfEncodeValue_Unsorted(self) ==
    LET Joined(ret) == IF ret.st # "ok" THEN ret ELSE Ok(Join(ret.value), <<>>)
    IN  Joined(EncodeAll(Val(self)))

SetOfEncodeValue(self) ==
    LET Joined(ret) ==
            IF ret.st # "ok" THEN ret ELSE Ok(Join(Sort(ret.value)), <<>>)
    IN  Joined(EncodeAll(Val(self)))

ChoiceEncodeValue(self) ==
    IF Val(self) = {} THEN Raise("ASN1Error")
    ELSE encode((CHOOSE p \in Val(self) : TRUE)[2])

RECURSIVE SequenceEncodeLoop_NoElision(_, _)
\* The loop of Sequence._encode_value emitting every field that has a
\* value, its default included.
SequenceEncodeLoop_NoElision(self, components) ==
    IF components = <<>> THEN Ok(<<>>, <<>>)
    ELSE LET Emitted(component, value, encoded_value, r) ==
                 IF r.st # "ok" THEN r
                 ELSE IF value # None
                     THEN Ok(<<encoded_value.value>> \o r.value, <<>>)
                 ELSE r
             Encoded(component, value, encoded_value) ==
                 IF value = None /\ ~component.optional
                     THEN Raise("ASN1Error")
                 ELSE IF encoded_value.st # "ok" THEN encoded_value
                 ELSE Emitted(component, value, encoded_value,
                              SequenceEncodeLoop_NoElision(
                                  self, Tail(components)))
             OfValue(component, value) ==
                 Encoded(component, value,
                         IF value = None THEN Ok(<<>>, <<>>)
                         ELSE encode(value))
             ForComponent(component) ==
                 OfValue(component, Get(Val(self), component.name))
         IN  ForComponent(Head(components))

RECURSIVE SequenceEncodeLoop(_, _)
\* The loop of Sequence._encode_value over the components from the given
\* one on: the list of the encodings that are emitted.
SequenceEncodeLoop(self, components) ==
    IF components = <<>> THEN Ok(<<>>, <<>>)
    ELSE LET Emitted(component, value, encoded_value, r) ==
                 IF r.st # "ok" THEN r
                 ELSE IF value # None
                         /\ component.encoded_default
                                # PyStr(encoded_value.value)
                     THEN Ok(<<encoded_value.value>> \o r.value, <<>>)
                 ELSE r
             Encoded(component, value, encoded_value) ==
                 IF value = None /\ ~component.optional
                     THEN Raise("ASN1Error")
                 ELSE IF encoded_value.st # "ok" THEN encoded_value
                 ELSE Emitted(component, value, encoded_value,
                              SequenceEncodeLoop(self, Tail(components)))
             OfValue(component, value) ==
                 Encoded(component, value,
                         IF value = None THEN Ok(<<>>, <<>>)
                         ELSE encode(value))
             ForComponent(component) ==
                 OfValue(component, Get(Val(self), component.name))
         IN  ForComponent(Head(components))

SequenceEncodeValue(self) ==
    LET Joined(ret) == IF ret.st # "ok" THEN ret ELSE Ok(Join(ret.value), <<>>)
    IN  Joined(SequenceEncodeLoop(self, SequenceComponents(self.type)))

_encode_value(self) ==
    CASE Kind(self.type) = "Boolean" ->
            Ok(IF Val(self) THEN <<255>> ELSE <<0>>, <<>>)
      [] Kind(self.type) = "Integer" -> encode_int(Val(self), TRUE)
      [] Kind(self.type) = "ASN1String" -> Ok(Val(self), <<>>)
      [] Kind(self.type) = "BitString" ->
            Ok(BitStringEncodeValue(Val(self)), <<>>)
      [] Kind(self.type) = "Any" -> Ok(Val(self), <<>>)
      [] Kind(self.type) = "Choice" -> ChoiceEncodeValue(self)
      [] Kind(self.type) = "SequenceOf" -> SequenceOfEncodeValue(self)
      [] Kind(self.type) = "SetOf" -> SetOfEncodeValue(self)
      [] Kind(self.type) = "Sequence" -> SequenceEncodeValue(self)

\* Abstract.encode
encode_impl(self) ==
    LET Wrapped(encoded_value) ==
            IF encoded_value.st # "ok" THEN encoded_value
            ELSE Ok(WrapTags(encoded_value.value, Tags(self.type)), <<>>)
    IN  Wrapped(_encode_value(self))

----------------------------------------------------------------------------
(* Decoding.                                                               *)

\* ASN1TagError is a subclass of ASN1Error.
IsASN1Error(st) == st \in {"ASN1Error", "ASN1TagError"}

RECURSIVE StripTags(_, _, _)
\* The loop of Abstract.read over reversed(cls.tags): the last of tags is
\* checked first.  Returns the last decoded_length and the buffer after
\* the last length read.
StripTags(tags, buf, decoded_length) ==
    IF tags = <<>> THEN Ok(decoded_length, buf)
    ELSE LET AfterLength(l) ==
                 IF l.st # "ok" THEN l
                 ELSE IF Len(l.rest) < l.value THEN Raise("ASN1Error")
                 ELSE StripTags(SubSeq(tags, 1, Len(tags) - 1),
                                l.rest, l.value)
             AfterTag(t) ==
                 IF Take(buf, TagLen(t)) # TagValue(t)
                     THEN Raise("ASN1TagError")
                 ELSE AfterLength(read_length(Drop(buf, TagLen(t))))
         IN  AfterTag(tags[Len(tags)])

\* decode without the check for bytes left over after the value.
decode_KeepingTail(cls, buf, strict) ==
    LET AfterRead(r) == IF r.st # "ok" THEN r ELSE Ok(r.value, <<>>)
    IN  AfterRead(read(cls, buf, strict))

\* Abstract.decode
decode(cls, buf, strict) ==
    LET AfterRead(r) ==
            IF r.st # "ok" THEN r
            ELSE IF r.rest # <<>> THEN Raise("ASN1Error")
            ELSE Ok(r.value, <<>>)
    IN  AfterRead(read(cls, buf, strict))

\* Boolean._decode_value that takes every decoding for a strict one.
BooleanDecodeValue_AlwaysStrict(buf, strict) ==
    IF Len(buf) # 1 THEN Raise("ASN1Error")
    ELSE IF buf[1] # 255 /\ buf[1] # 0 THEN Raise("ASN1Error")
    ELSE Ok(buf[1] # 0, <<>>)

BooleanDecodeValue(buf, strict) ==
    IF Len(buf) # 1 THEN Raise("ASN1Error")
    ELSE IF strict /\ buf[1] # 255 /\ buf[1] # 0 THEN Raise("ASN1Error")
    ELSE Ok(buf[1] # 0, <<>>)

RECURSIVE Format08b(_, _)
\* format(b, "08b"): the n low bits of b as "0"/"1" characters.
Format08b(b, n) ==
    IF n = 0 THEN <<>> ELSE Append(Format08b(b \div 2, n - 1), 48 + (b % 2))

BitStringDecodeValue(buf, strict) ==
    IF buf = <<>> THEN Raise("ASN1Error")
    ELSE LET Unpadded(pad, ret) ==
                 IF pad > 7 THEN Raise("ASN1Error")
                 ELSE IF pad = 0 THEN Ok(ret, <<>>)
                 ELSE IF ret = <<>>
                         \/ \E i \in (Len(ret) - pad + 1)..Len(ret) :
                                ret[i] = 49
                     THEN Raise("ASN1Error")
                 ELSE Ok(Take(ret, Len(ret) - pad), <<>>)
         IN  Unpadded(buf[1],
                      Join([i \in 1..(Len(buf) - 1) |->
                               Format08b(buf[i + 1], 8)]))

RECURSIVE RepeatedDecodeValue(_, _, _)
\* SequenceOf._decode_value and SetOf._decode_value: read elements until
\* the buffer is exhausted.
RepeatedDecodeValue(cls, buf, strict) ==
    IF buf = <<>> THEN Ok(<<>>, <<>>)
    ELSE LET Appended(r, more) ==
                 IF more.st # "ok" THEN more
                 ELSE Ok(<<r.value>> \o more.value, <<>>)
             AfterRead(r) ==
                 IF r.st # "ok" THEN r
                 ELSE Appended(r, RepeatedDecodeValue(cls, r.rest, strict))
         IN  AfterRead(read(ElementType(cls), buf, strict))

\* Any._read
AnyRead(cls, buf, strict) ==
    LET Returned(value, decoded_length) ==
            IF value.st # "ok" THEN value
            ELSE Ok(value.value, Drop(buf, decoded_length))
        Sized(decoded_length) ==
            Returned(New(cls, None, PyStr(Take(buf, decoded_length)), strict),
                     decoded_length)
        AfterLength(l) ==
            IF l.st # "ok" THEN l
            ELSE IF Len(l.rest) < l.value THEN Raise("ASN1Error")
            ELSE Sized(Len(buf) - Len(l.rest) + l.value)
        AfterTag(t) ==
            IF t.st # "ok" THEN t ELSE AfterLength(read_length(t.rest))
    IN  AfterTag(TagRead(buf))

\* Any.decode_inner: the instance after the call, or the exception raised.
decode_inner(self, value_type, strict) ==
    LET Cached(d) ==
            IF d.st # "ok" THEN d
            ELSE Ok([self EXCEPT !.decoded_value = d.value], <<>>)
    IN  Cached(decode(value_type, Val(self), strict))

\* Choice._decode_readahead_value reporting an unknown tag as a malformed
\* encoding.
_decode_readahead_value_NoTagError(cls, buf, readahead_tag, readahead_value, strict) ==
    IF readahead_tag \notin Keys(tag_map(cls)) THEN Raise("ASN1Error")
    ELSE LET AfterRead(key, r) ==
                 IF r.st # "ok" THEN r
                 ELSE IF r.rest # <<>> THEN Raise("ASN1Error")
                 ELSE Ok({<<key, r.value>>}, <<>>)
             OfType(key, spec) == AfterRead(key, read(spec, buf, strict))
             OfKey(key) == OfType(key, Get(ChoiceComponents(cls), key))
         IN  OfKey(Get(tag_map(cls), readahead_tag))

\* Choice._decode_readahead_value
_decode_readahead_value(cls, buf, readahead_tag, readahead_value, strict) ==
    IF readahead_tag \notin Keys(tag_map(cls)) THEN Raise("ASN1TagError")
    ELSE LET Built(key, value) ==
                 IF value.st # "ok" THEN value
                 ELSE Ok({<<key, value.value>>}, <<>>)
             AfterRead(key, r) ==
                 IF r.st # "ok" THEN r
                 ELSE IF r.rest # <<>> THEN Raise("ASN1Error")
                 ELSE Ok({<<key, r.value>>}, <<>>)
             OfType(key, spec) ==
                 IF Len(Tags(spec)) = 1
                     THEN Built(key, New(spec, None, PyStr(readahead_value),
                                         TRUE))
                 ELSE AfterRead(key, read(spec, buf, strict))
             OfKey(key) == OfType(key, Get(ChoiceComponents(cls), key))
         IN  OfKey(Get(tag_map(cls), readahead_tag))

\* Choice._read
ChoiceRead(cls, buf, strict) ==
    LET Returned(value, decoded_length) ==
            IF value.st # "ok" THEN value
            ELSE Ok(Inst(cls, value.value), Drop(buf, decoded_length))
        Sized(t, l, decoded_length) ==
            Returned(_decode_readahead_value(
                         cls, Take(buf, decoded_length), t.value,
                         Take(l.rest, l.value), strict),
                     decoded_length)
        AfterLength(t, l) ==
            IF l.st # "ok" THEN l
            ELSE IF Len(l.rest) < l.value THEN Raise("ASN1Error")
            ELSE Sized(t, l, Len(buf) - Len(l.rest) + l.value)
        AfterTag(t) ==
            IF t.st # "ok" THEN t ELSE AfterLength(t, read_length(t.rest))
    IN  AfterTag(TagRead(buf))

_read(cls, buf, strict) ==
    IF Kind(cls) = "Choice" THEN ChoiceRead(cls, buf, strict)
    ELSE AnyRead(cls, buf, strict)

\* Abstract.read
read_impl(cls, buf, strict) ==
    IF Tags(cls) # <<>> THEN
        LET Returned(value, rest) ==
                IF value.st # "ok" THEN value ELSE Ok(value.value, rest)
            AfterTags(s) ==
                IF s.st # "ok" THEN s
                ELSE Returned(New(cls, None, PyStr(Take(s.rest, s.value)),
                                  strict),
                              Drop(s.rest, s.value))
        IN  AfterTags(StripTags(Tags(cls), buf, 0))
    ELSE _read(cls, buf, strict)

\* Choice._decode_value
ChoiceDecodeValue(cls, buf, strict) ==
    LET AfterLength(t, l) ==
            IF l.st # "ok" THEN l
            ELSE IF Len(l.rest) # l.value THEN Raise("ASN1Error")
            ELSE _decode_readahead_value(cls, buf, t.value, l.rest, strict)
        AfterTag(t) ==
            IF t.st # "ok" THEN t ELSE AfterLength(t, read_length(t.rest))
    IN  AfterTag(TagRead(buf))

\* dict.get of a Component's lookup table: keys compare by value with the
\* selector instance.
LookupGet(lookup, key) ==
    IF key # None /\ \E p \in lookup : p[1] = Val(key)
        THEN PyStr((CHOOSE p \in lookup : p[1] = Val(key))[2])
    ELSE None

RECURSIVE SequenceReadLoop(_, _, _, _)
\* The first loop of Sequence._decode_value: ret is the dict built so far.
SequenceReadLoop(components, buf, strict, ret) ==
    IF components = <<>> THEN Ok(ret, buf)
    ELSE LET AfterRead(component, r) ==
                 IF r.st = "ASN1TagError" THEN
                     IF ~component.optional THEN r
                     ELSE SequenceReadLoop(
                              Tail(components), buf, strict,
                              ret \cup {<<component.name, component.default>>})
                 ELSE IF r.st # "ok" THEN r
                 ELSE SequenceReadLoop(Tail(components), r.rest, strict,
                                       ret \cup {<<component.name, r.value>>})
             ForComponent(component) ==
                 AfterRead(component,
                           read(component.value_type, buf, strict))
         IN  ForComponent(Head(components))

RECURSIVE SequenceSecondPass_Swallowing(_, _, _)
\* The second loop with the except clause taken in strict mode as well.
SequenceSecondPass_Swallowing(components, ret, strict) ==
    IF components = <<>> THEN Ok(ret, <<>>)
    ELSE LET AfterDecodeInner(component, d) ==
                 IF d.st = "ok" THEN
                     SequenceSecondPass_Swallowing(
                         Tail(components), Put(ret, component.name, d.value),
                         strict)
                 ELSE IF IsASN1Error(d.st) THEN
                     SequenceSecondPass_Swallowing(Tail(components), ret,
                                                   strict)
                 ELSE d
             OfType(component, value_type) ==
                 IF component.defined_by = None \/ value_type = None
                     THEN SequenceSecondPass_Swallowing(Tail(components), ret,
                                                        strict)
                 ELSE IF Get(ret, component.name) = None
                     THEN Raise("AttributeError")
                 ELSE AfterDecodeInner(
                          component,
                          decode_inner(Get(ret, component.name),
                                       Val(value_type), strict))
             ForComponent(component) ==
                 OfType(component,
                        LookupGet(component.lookup,
                                  Get(ret, Val(component.defined_by))))
         IN  ForComponent(Head(components))

RECURSIVE SequenceSecondPass(_, _, _)
\* The second loop of Sequence._decode_value: decoding ANY.
SequenceSecondPass(components, ret, strict) ==
    IF components = <<>> THEN Ok(ret, <<>>)
    ELSE LET AfterDecodeInner(component, d) ==
                 IF d.st = "ok" THEN
                     SequenceSecondPass(Tail(components),
                                        Put(ret, component.name, d.value),
                                        strict)
                 ELSE IF IsASN1Error(d.st) /\ ~strict THEN
                     SequenceSecondPass(Tail(components), ret, strict)
                 ELSE d
             OfType(component, value_type) ==
                 IF component.defined_by = None
                     THEN SequenceSecondPass(Tail(components), ret, strict)
                 ELSE IF value_type = None
                     THEN SequenceSecondPass(Tail(components), ret, strict)
                 ELSE IF Get(ret, component.name) = None
                     THEN Raise("AttributeError")
                 ELSE AfterDecodeInner(
                          component,
                          decode_inner(Get(ret, component.name),
                                       Val(value_type), strict))
             ForComponent(component) ==
                 OfType(component,
                        LookupGet(component.lookup,
                                  Get(ret, Val(component.defined_by))))
         IN  ForComponent(Head(components))

SequenceDecodeValue(cls, buf, strict) ==
    LET AfterFirstLoop(first) ==
            IF first.st # "ok" THEN first
            ELSE IF first.rest # <<>> THEN Raise("ASN1Error")
            ELSE SequenceSecondPass(SequenceComponents(cls), first.value,
                                    strict)
    IN  AfterFirstLoop(SequenceReadLoop(SequenceComponents(cls), buf, strict,
                                        {}))

_decode_value(cls, buf, strict) ==
    CASE Kind(cls) = "Boolean" -> BooleanDecodeValue(buf, strict)
      [] Kind(cls) = "Integer" -> decode_int(buf, TRUE)
      [] Kind(cls) = "ASN1String" -> Ok(buf, <<>>)
      [] Kind(cls) = "BitString" -> BitStringDecodeValue(buf, strict)
      [] Kind(cls) = "Any" -> Ok(buf, <<>>)
      [] Kind(cls) = "Choice" -> ChoiceDecodeValue(cls, buf, strict)
      [] Kind(cls) = "SequenceOf" -> RepeatedDecodeValue(cls, buf, strict)
      [] Kind(cls) = "SetOf" -> RepeatedDecodeValue(cls, buf, strict)
      [] Kind(cls) = "Sequence" -> SequenceDecodeValue(cls, buf, strict)

----------------------------------------------------------------------------
(* Construction.                                                           *)

SimpleKinds == {"Boolean", "Integer", "ASN1String"}

RECURSIVE Truthy(_)
\* bool(value)
Truthy(value) ==
    CASE value.py = "None" -> FALSE
      [] value.py = "bool" -> Val(value)
      [] value.py = "int" -> Val(value) # 0
      [] value.py = "str" -> Val(value) # <<>>
      [] value.py = "list" -> Val(value) # <<>>
      [] value.py = "dict" -> Val(value) # {}
      [] value.py = "inst" ->
            CASE Kind(value.type) = "Boolean" -> Val(value)
              [] Kind(value.type) = "Integer" -> Val(value) # 0
              [] Kind(value.type) = "ASN1String" -> Val(value) # <<>>
              [] Kind(value.type) = "Choice" -> Val(value) # {}
              [] Kind(value.type) \in {"SequenceOf", "SetOf"} ->
                    Val(value) # <<>>
              [] Kind(value.type) = "Sequence" ->
                    SequenceComponents(value.type) # <<>>
              [] OTHER -> TRUE

RECURSIVE ParseInt(_, _)
ParseInt(acc, digits) ==
    IF digits = <<>> THEN acc
    ELSE ParseInt(acc * 10 + (Head(digits) - 48), Tail(digits))

\* int(s) for a str
IntOfStr(s) ==
    IF s # <<>> /\ \A i \in 1..Len(s) : s[i] \in 48..57
        THEN Ok(ParseInt(0, s), <<>>)
    ELSE Raise("ValueError")

\* int(value)
IntOf(value) ==
    CASE value.py = "bool" -> Ok(IF Val(value) THEN 1 ELSE 0, <<>>)
      [] value.py = "int" -> Ok(Val(value), <<>>)
      [] value.py = "str" -> IntOfStr(Val(value))
      [] value.py = "inst" /\ Kind(value.type) = "Boolean" ->
            Ok(IF Val(value) THEN 1 ELSE 0, <<>>)
      [] value.py = "inst" /\ Kind(value.type) = "Integer" ->
            Ok(Val(value), <<>>)
      [] value.py = "inst" /\ Kind(value.type) = "ASN1String" ->
            IntOfStr(Val(value))
      [] OTHER -> Raise("TypeError")

ASN1StringConvertValue(value) ==
    IF value.py = "str" THEN Ok(Val(value), <<>>)
    ELSE IF IsInstOfKind(value, {"ASN1String"}) THEN Ok(Val(value), <<>>)
    ELSE Raise("TypeError")

BitStringConvertValue(value) ==
    IF IsInstOfKind(value, {"BitString"}) THEN Ok(Val(value), <<>>)
    ELSE IF value.py = "str" THEN
        IF \A i \in 1..Len(Val(value)) : Val(value)[i] \in {48, 49}
            THEN Ok(Val(value), <<>>)
        ELSE Raise("ValueError")
    ELSE Raise("TypeError")

AnyConvertValue(value) ==
    IF IsInstOfKind(value, {"Any"}) THEN Raise("TypeError")
    ELSE IF IsInst(value) THEN encode(value)
    ELSE Raise("TypeError")

\* value if it is of the exact type spec, else spec(value)
Coerce(spec, value) ==
    IF TypeIs(value, spec) THEN Ok(value, <<>>)
    ELSE New(spec, value, None, TRUE)

\* The items of a mapping initializer: a dict, or a Choice or a Sequence
\* used as a mapping.
Items(value) ==
    Val(value)

IsMapping(value) ==
    value.py = "dict" \/ IsInstOfKind(value, {"Choice", "Sequence"})

ChoiceConvertValue(cls, value) ==
    IF ~Truthy(value) THEN Ok({}, <<>>)
    ELSE IF ~IsMapping(value) THEN Raise("TypeError")
    ELSE IF Cardinality(Items(value)) # 1 THEN Raise("ValueError")
    ELSE LET Converted(item, v) ==
                 IF v.st # "ok" THEN v ELSE Ok({<<item[1], v.value>>}, <<>>)
             ForItem(item) ==
                 IF item[2] = None THEN Ok({}, <<>>)
                 ELSE IF item[1] \notin Keys(ChoiceComponents(cls))
                     THEN Raise("ValueError")
                 ELSE Converted(item,
                                Coerce(Get(ChoiceComponents(cls), item[1]),
                                       item[2]))
         IN  ForItem(CHOOSE p \in Items(value) : TRUE)

RECURSIVE CoerceAll(_, _)
CoerceAll(spec, values) ==
    IF values = <<>> THEN Ok(<<>>, <<>>)
    ELSE LET Appended(v, r) ==
                 IF r.st # "ok" THEN r ELSE Ok(<<v.value>> \o r.value, <<>>)
             Converted(v) ==
                 IF v.st # "ok" THEN v
                 ELSE Appended(v, CoerceAll(spec, Tail(values)))
         IN  Converted(Coerce(spec, Head(values)))

RepeatedConvertValue(cls, value) ==
    IF value.py = "list" \/ IsInstOfKind(value, {"SequenceOf", "SetOf"})
        THEN CoerceAll(ElementType(cls), Val(value))
    ELSE Raise("TypeError")

\* Sequence._convert_single_value
_convert_single_value(component, value) ==
    IF value = None THEN Ok(component.default, <<>>)
    ELSE Coerce(component.value_type, value)

RECURSIVE SequenceConvertLoop(_, _)
SequenceConvertLoop(components, items) ==
    IF components = <<>> THEN Ok({}, <<>>)
    ELSE LET Added(component, v, r) ==
                 IF r.st # "ok" THEN r
                 ELSE Ok(r.value \cup {<<component.name, v.value>>}, <<>>)
             Converted(component, v) ==
                 IF v.st # "ok" THEN v
                 ELSE Added(component, v,
                            SequenceConvertLoop(Tail(components), items))
             ForComponent(component) ==
                 Converted(component,
                           _convert_single_value(
                               component, Get(items, component.name)))
         IN  ForComponent(Head(components))

SequenceConvertValue(cls, value) ==
    IF Truthy(value) /\ ~IsMapping(value) THEN Raise("TypeError")
    ELSE LET WithItems(items) ==
                 IF ~(Keys(items) \subseteq key_map(cls))
                     THEN Raise("ValueError")
                 ELSE SequenceConvertLoop(SequenceComponents(cls), items)
         IN  WithItems(IF Truthy(value) THEN Items(value) ELSE {})

_convert_value(cls, value) ==
    CASE Kind(cls) = "Boolean" -> Ok(Truthy(value), <<>>)
      [] Kind(cls) = "Integer" -> IntOf(value)
      [] Kind(cls) = "ASN1String" -> ASN1StringConvertValue(value)
      [] Kind(cls) = "BitString" -> BitStringConvertValue(value)
      [] Kind(cls) = "Any" -> AnyConvertValue(value)
      [] Kind(cls) = "Choice" -> ChoiceConvertValue(cls, value)
      [] Kind(cls) \in {"SequenceOf", "SetOf"} ->
            RepeatedConvertValue(cls, value)
      [] Kind(cls) = "Sequence" -> SequenceConvertValue(cls, value)

\* Abstract.__init__ looking at the value before the serialized buffer.
AbstractInit_ValueFirst(cls, value, serialized_value, strict) ==
    LET Built(v) == IF v.st # "ok" THEN v ELSE Ok(Inst(cls, v.value), <<>>)
    IN  IF value # None THEN Built(_convert_value(cls, value))
        ELSE IF serialized_value # None
            THEN Built(_decode_value(cls, Val(serialized_value), strict))
        ELSE Raise("TypeError")

\* Abstract.__init__: the instance constructed, or the exception raised.
AbstractInit(cls, value, serialized_value, strict) ==
    LET Built(v) == IF v.st # "ok" THEN v ELSE Ok(Inst(cls, v.value), <<>>)
    IN  IF serialized_value # None
            THEN Built(_decode_value(cls, Val(serialized_value), strict))
        ELSE IF value # None THEN Built(_convert_value(cls, value))
        ELSE Raise("TypeError")

\* Any.__init__
AnyInit(cls, value, serialized_value, strict) ==
    LET Built(r, decoded_value) ==
            IF r.st # "ok" THEN r
            ELSE Ok(AnyInst(cls, Val(r.value), decoded_value), <<>>)
        Super(v, s, decoded_value) ==
            Built(AbstractInit(cls, v, s, strict), decoded_value)
    IN  IF value.py = "str" THEN Super(None, value, None)
        ELSE Super(value, serialized_value, value)

\* The constructor of a class: Any.__init__ for Any, else the inherited
\* Abstract.__init__.
New_impl(cls, value, serialized_value, strict) ==
    IF Kind(cls) = "Any" THEN AnyInit(cls, value, serialized_value, strict)
    ELSE AbstractInit(cls, value, serialized_value, strict)

\* Method dispatch.
Call(method, args) ==
    CASE method = "__init__" -> New_impl(args[1], args[2], args[3], args[4])
      [] method = "encode" -> encode_impl(args[1])
      [] method = "read" -> read_impl(args[1], args[2], args[3])

----------------------------------------------------------------------------
(* Mutation of instances: each operator gives the instance after the call, *)
(* or the exception raised.                                                *)

\* Choice.__setitem__ adding the key to the ones already set.
__setitem___Adding(self, key, value) ==
    IF key \notin Keys(ChoiceComponents(self.type)) THEN Raise("KeyError")
    ELSE LET Converted(v) ==
                 IF v.st # "ok" THEN v
                 ELSE Ok([self EXCEPT !.dict = Put(@, key, v.value)], <<>>)
             OfType(spec) ==
                 IF value = None THEN Ok([self EXCEPT !.dict = {}], <<>>)
                 ELSE IF TypeIs(value, spec)
                     THEN Ok([self EXCEPT !.dict = Put(@, key, value)], <<>>)
                 ELSE Converted(New(spec, value, None, TRUE))
         IN  OfType(Get(ChoiceComponents(self.type), key))

\* Choice.__setitem__
__setitem__(self, key, value) ==
    IF key \notin Keys(ChoiceComponents(self.type)) THEN Raise("KeyError")
    ELSE LET Converted(v) ==
                 IF v.st # "ok" THEN v
                 ELSE Ok([self EXCEPT !.dict = {<<key, v.value>>}], <<>>)
             OfType(spec) ==
                 IF value = None THEN Ok([self EXCEPT !.dict = {}], <<>>)
                 ELSE IF TypeIs(value, spec)
                     THEN Ok([self EXCEPT !.dict = {<<key, value>>}], <<>>)
                 ELSE Converted(New(spec, value, None, TRUE))
         IN  OfType(Get(ChoiceComponents(self.type), key))

\* Choice.__delitem__
__delitem__(self, key) ==
    IF key \in Keys(Val(self)) THEN Ok([self EXCEPT !.dict = {}], <<>>)
    ELSE IF key \notin Keys(ChoiceComponents(self.type)) THEN Raise("KeyError")
    ELSE Ok(self, <<>>)

\* Repeated.__setitem__ with an integer index, counted from 0.
Repeated__setitem__(self, index, value) ==
    LET Stored(v) ==
            IF v.st # "ok" THEN v
            ELSE IF index >= Len(Val(self)) THEN Raise("IndexError")
            ELSE Ok([self EXCEPT !.list[index + 1] = v.value], <<>>)
    IN  Stored(Coerce(ElementType(self.type), value))

\* Repeated.__delitem__ with an integer index, counted from 0.
Repeated__delitem__(self, index) ==
    IF index >= Len(Val(self)) THEN Raise("IndexError")
    ELSE Ok([self EXCEPT !.list = Take(@, index) \o Drop(@, index + 1)], <<>>)

\* Repeated.insert
insert(self, index, value) ==
    LET Inserted(v) ==
            IF v.st # "ok" THEN v
            ELSE Ok([self EXCEPT !.list = Take(@, index) \o <<v.value>>
                                              \o Drop(@, index)], <<>>)
    IN  Inserted(Coerce(ElementType(self.type), value))

\* cls.key_map[key]
KeyMapGet(cls, key) ==
    SequenceComponents(cls)[CHOOSE i \in 1..Len(SequenceComponents(cls)) :
                                SequenceComponents(cls)[i].name = key]

\* Sequence.__getitem__
Sequence__getitem__(self, key) ==
    IF key \in Keys(Val(self)) THEN Ok(Get(Val(self), key), <<>>)
    ELSE Raise("KeyError")

\* Sequence.__setitem__: the converted value is assigned into self._values,
\* an attribute that no instance has (the dict is self._value).
Sequence__setitem__(self, key, value) ==
    IF key \notin key_map(self.type) THEN Raise("KeyError")
    ELSE LET Stored(v) == IF v.st # "ok" THEN v ELSE Raise("AttributeError")
         IN  Stored(_convert_single_value(KeyMapGet(self.type, key), value))

\* Sequence.__delitem__
Sequence__delitem__(self, key) ==
    IF key \notin key_map(self.type) THEN Raise("KeyError")
    ELSE Sequence__setitem__(self, key, None)

----------------------------------------------------------------------------
(* Value equality and the value property.                                  *)

RECURSIVE ValueOf(_)
\* The value property, compared deeply as == compares it: __eq__ is
\* self.value == other, so sub-values compare by their own values and an
\* Any by its undecoded bytes.
ValueOf(self) ==
    IF self = None THEN None
    ELSE CASE Kind(self.type) = "Any" -> PyStr(Val(self))
           [] Kind(self.type) = "Choice" ->
                 PyDict({<<p[1], ValueOf(p[2])>> : p \in Val(self)})
           [] Kind(self.type) \in {"SequenceOf", "SetOf"} ->
                 PyList([i \in 1..Len(Val(self)) |-> ValueOf(Val(self)[i])])
           [] Kind(self.type) = "Sequence" ->
                 PyDict({<<p[1], ValueOf(p[2])>> : p \in Val(self)})
           [] OTHER -> self

\* Abstract.__eq__
Eq(self, other) == ValueOf(self) = ValueOf(other)

----------------------------------------------------------------------------
(* The inputs.                                                             *)

Ints == (-MaxInt..MaxInt) \cup {5, 127, 128, -128, -129, 256}
ListInts == {-1, 1, 5, 128}
LongString == [i \in 1..128 |-> 97]
Strings == {<<>>, <<120>>, <<120, 121>>, LongString}
BitStrings == {<<>>, <<49>>, <<49, 48, 49, 49, 48>>,
               <<48, 48, 48, 48, 48, 48, 48, 48>>,
               <<49, 48, 49, 49, 48, 48, 48, 48, 49>>}

RECURSIVE ListsUpTo(_, _)
\* The lists of at most n elements of S.
ListsUpTo(S, n) ==
    IF n = 0 THEN {<<>>}
    ELSE LET shorter == ListsUpTo(S, n - 1)
         IN  shorter \cup {Append(l, x) : l \in shorter, x \in S}

IntegerOf(i) == New("Integer", PyInt(i), None, TRUE).value
BooleanOf(b) == New("Boolean", PyBool(b), None, TRUE).value

\* Initializers of Any: instances to wrap, and raw strings.
AnyValues ==
    {IntegerOf(5), BooleanOf(TRUE),
     PyStr(<<2, 1, 5>>), PyStr(<<1, 1, 255>>), PyStr(<<4, 1, 120>>),
     PyStr(<<129, 1, 255>>)}

OptionalItem(name, values) == {{}} \cup {{<<name, v>>} : v \in values}

DummySequenceValues ==
    {PyDict(sel \cup flag \cup opt \cup val) :
        sel \in OptionalItem("sel", {PyInt(1), PyInt(2), PyInt(3)}),
        flag \in OptionalItem("flag", {PyBool(TRUE), PyBool(FALSE)}),
        opt \in OptionalItem("opt", {PyStr(<<120>>)}),
        val \in OptionalItem("val", {IntegerOf(5), BooleanOf(TRUE)})}

OptionalSequenceValues ==
    {PyDict(flag \cup opt) :
        flag \in OptionalItem("flag", {PyBool(TRUE), PyBool(FALSE)}),
        opt \in OptionalItem("opt", {PyStr(<<120>>), PyStr(<<121>>)})}

ChoiceValues ==
    {PyDict({})}
    \cup {PyDict({<<"a", PyInt(i)>>}) : i \in {1, 128}}
    \cup {PyDict({<<"b", PyBool(b)>>}) : b \in BOOLEAN}
    \cup {PyDict({<<"c", PyInt(i)>>}) : i \in {1, -129}}
    \cup {PyDict({<<"a", None>>}), PyDict({<<"zz", PyInt(1)>>}),
          PyDict({<<"a", PyInt(1)>>, <<"b", PyBool(TRUE)>>})}

\* The initializers offered to each class.
Values(cls) ==
    CASE Kind(cls) = "Boolean" -> {PyBool(b) : b \in BOOLEAN}
      [] Kind(cls) = "Integer" -> {PyInt(i) : i \in Ints}
      [] Kind(cls) = "ASN1String" -> {PyStr(x) : x \in Strings}
      [] Kind(cls) = "BitString" -> {PyStr(x) : x \in BitStrings}
      [] Kind(cls) = "Any" -> AnyValues
      [] Kind(cls) = "Choice" -> ChoiceValues
      [] Kind(cls) \in {"SequenceOf", "SetOf"} ->
            {PyList([i \in 1..Len(l) |-> PyInt(l[i])]) :
                l \in ListsUpTo(ListInts, MaxListLen)}
      [] cls = "DummySequence" -> DummySequenceValues
      [] cls = "OptionalSequence" -> OptionalSequenceValues

AllClasses == {ClassNames[i] : i \in 1..Len(ClassNames)}

\* Serialized contents handed to a constructor.
SerializedValues == {PyStr(<<>>), PyStr(<<255>>), PyStr(<<1>>), PyStr(<<2, 1, 5>>)}

\* Bytes appended to a buffer.
TrailingBytes == {0, 2, 255}

----------------------------------------------------------------------------
(* The codec driven through construct, encode and decode.                  *)

NoResult == Ok(None, <<>>)

Init ==
    /\ pc = "init"
    /\ obj = None
    /\ wire = <<>>
    /\ res = NoResult
    /\ arg = None
    /\ classes = InitClasses
    /\ cls_components = InitComponents
    /\ heap = <<>>

\* obj = cls(value=value, serialized_value=serialized_value, strict=strict)
Construct(cls, value, serialized_value, strict) ==
    /\ pc' = "new"
    /\ arg' = [cls |-> cls, value |-> value,
               serialized_value |-> serialized_value, strict |-> strict]
    /\ res' = New(cls, value, serialized_value, strict)
    /\ obj' = res'.value
    /\ UNCHANGED <<wire, classes, cls_components, heap>>

\* Construction from a value.
ConstructFromValue ==
    /\ pc = "init"
    /\ \E cls \in AllClasses, strict \in BOOLEAN :
           \E value \in Values(cls) : Construct(cls, value, None, strict)

\* Construction from a serialized buffer.
ConstructFromSerialized ==
    /\ pc = "init"
    /\ \E cls \in AllClasses, serialized_value \in SerializedValues,
          strict \in BOOLEAN :
           Construct(cls, None, serialized_value, strict)

\* Construction from both, and from neither.
ConstructFromBoth ==
    /\ pc = "init"
    /\ \E cls \in AllClasses, serialized_value \in SerializedValues :
           \E value \in Values(cls) :
               Construct(cls, value, serialized_value, TRUE)

ConstructFromNeither ==
    /\ pc = "init"
    /\ \E cls \in AllClasses : Construct(cls, None, None, TRUE)

\* wire = obj.encode()
Encode ==
    /\ pc = "new"
    /\ obj # None
    /\ pc' = "encoded"
    /\ arg' = None
    /\ res' = encode(obj)
    /\ wire' = IF res'.st = "ok" THEN res'.value ELSE wire
    /\ UNCHANGED <<obj, classes, cls_components, heap>>

\* The buffer is followed by one more byte before it is decoded.
AppendByte ==
    /\ pc = "encoded"
    /\ res.st = "ok"
    /\ \E b \in TrailingBytes : wire' = Append(wire, b)
    /\ pc' = "appended"
    /\ UNCHANGED <<obj, res, arg, classes, cls_components, heap>>

\* The buffer is cut short before it is decoded.
Truncate ==
    /\ pc = "encoded"
    /\ res.st = "ok"
    /\ \E n \in 0..MaxTruncate : n < Len(wire) /\ wire' = Take(wire, n)
    /\ pc' = "truncated"
    /\ UNCHANGED <<obj, res, arg, classes, cls_components, heap>>

\* The classes a buffer is decoded against.
DecodeClasses == AllClasses

\* cls.decode(wire, strict=strict)
Decode ==
    /\ pc \in {"encoded", "appended", "truncated"}
    /\ res.st = "ok"
    /\ pc' = "decoded"
    /\ \E cls \in DecodeClasses, strict \in BOOLEAN :
           /\ arg' = [cls |-> cls, strict |-> strict]
           /\ res' = decode(cls, wire, strict)
    /\ UNCHANGED <<obj, wire, classes, cls_components, heap>>

\* cls.read(wire, strict=strict)
Read ==
    /\ pc \in {"encoded", "appended", "truncated"}
    /\ res.st = "ok"
    /\ pc' = "read"
    /\ \E cls \in DecodeClasses, strict \in BOOLEAN :
           /\ arg' = [cls |-> cls, strict |-> strict]
           /\ res' = read(cls, wire, strict)
    /\ UNCHANGED <<obj, wire, classes, cls_components, heap>>

Next ==
    \/ ConstructFromValue
    \/ ConstructFromSerialized
    \/ ConstructFromBoth
    \/ ConstructFromNeither
    \/ Encode
    \/ AppendByte
    \/ Truncate
    \/ Decode
    \/ Read

Spec == Init /\ [][Next]_vars

----------------------------------------------------------------------------
(* Instances mutated after construction: the alternatives of a Choice are  *)
(* set and deleted by name, and an Any is decoded again and again.         *)

\* Buffers a Choice is decoded from.
ChoiceBuffers ==
    {<<2, 1, 5>>, <<1, 1, 255>>, <<1, 1, 1>>, <<160, 3, 2, 1, 5>>,
     <<4, 1, 120>>, <<2, 1>>}

\* Keys used on a Choice: its alternatives and an unknown name.
ChoiceKeys == Keys(ChoiceComponents("DummyChoice")) \cup {"zz"}

\* Values assigned to an alternative.
ItemValues ==
    {None, PyInt(1), PyInt(128), PyBool(TRUE), PyStr(<<120>>),
     IntegerOf(5), BooleanOf(FALSE)}

\* Buffers an Any is read from.
AnyBuffers ==
    {<<2, 1, 5>>, <<1, 1, 1>>, <<1, 1, 255>>, <<4, 1, 120>>, <<129, 1, 255>>}

\* Types an Any is decoded against.
InnerTypes ==
    {"Integer", "Boolean", "OctetString", "BooleanImplicit1",
     "IntegerImplicit1"}

\* obj = DummyChoice(value)
NewChoice ==
    /\ pc = "init"
    /\ \E value \in ChoiceValues :
           /\ res' = New("DummyChoice", value, None, TRUE)
           /\ arg' = [op |-> "new", value |-> value]
    /\ obj' = res'.value
    /\ pc' = IF res'.st = "ok" THEN "choice" ELSE "init"
    /\ UNCHANGED <<wire, classes, cls_components, heap>>

\* obj = DummyChoice.decode(buf, strict=strict)
DecodeChoice ==
    /\ pc = "init"
    /\ \E buf \in ChoiceBuffers, strict \in BOOLEAN :
           /\ res' = decode("DummyChoice", buf, strict)
           /\ wire' = buf
           /\ arg' = [op |-> "decode", strict |-> strict]
    /\ obj' = res'.value
    /\ pc' = IF res'.st = "ok" THEN "choice" ELSE "init"
    /\ UNCHANGED <<classes, cls_components, heap>>

\* obj[key] = value
SetItem ==
    /\ pc = "choice"
    /\ \E key \in ChoiceKeys, value \in ItemValues :
           /\ res' = __setitem__(obj, key, value)
           /\ arg' = [op |-> "setitem", key |-> key, value |-> value]
    /\ obj' = IF res'.st = "ok" THEN res'.value ELSE obj
    /\ UNCHANGED <<pc, wire, classes, cls_components, heap>>

\* del obj[key]
DelItem ==
    /\ pc = "choice"
    /\ \E key \in ChoiceKeys :
           /\ res' = __delitem__(obj, key)
           /\ arg' = [op |-> "delitem", key |-> key]
    /\ obj' = IF res'.st = "ok" THEN res'.value ELSE obj
    /\ UNCHANGED <<pc, wire, classes, cls_components, heap>>

\* obj = Any(value)
NewAny ==
    /\ pc = "init"
    /\ \E value \in AnyValues :
           /\ res' = New("Any", value, None, TRUE)
           /\ arg' = [op |-> "new", value |-> value]
    /\ obj' = res'.value
    /\ pc' = "any"
    /\ UNCHANGED <<wire, classes, cls_components, heap>>

\* obj, _ = Any.read(buf)
ReadAny ==
    /\ pc = "init"
    /\ \E buf \in AnyBuffers :
           /\ res' = read("Any", buf, TRUE)
           /\ wire' = buf
    /\ arg' = [op |-> "read"]
    /\ obj' = res'.value
    /\ pc' = "any"
    /\ UNCHANGED <<classes, cls_components, heap>>

\* obj.decode_inner(value_type, strict=strict)
DecodeInner ==
    /\ pc = "any"
    /\ \E value_type \in InnerTypes, strict \in BOOLEAN :
           /\ res' = decode_inner(obj, value_type, strict)
           /\ arg' = [op |-> "decode_inner", value_type |-> value_type,
                      strict |-> strict]
    /\ obj' = IF res'.st = "ok" THEN res'.value ELSE obj
    /\ UNCHANGED <<pc, wire, classes, cls_components, heap>>

MutationNext ==
    \/ NewChoice
    \/ DecodeChoice
    \/ SetItem
    \/ DelItem
    \/ NewAny
    \/ ReadAny
    \/ DecodeInner

MutationSpec == Init /\ [][MutationNext]_vars

----------------------------------------------------------------------------
(* Classes derived at run time with explicit() and implicit().             *)

\* The name given to a derived class: "%s.explicit(%d, %d)".
DerivedName(cls, op, number, tag_class) ==
    cls \o "." \o op \o "(" \o ToString(number) \o ", "
        \o ToString(tag_class) \o ")"

\* mcs(name, (cls,), {}): a subclass, which inherits the tags attribute.
Subclass(name, cls) == Class(name, Kind(cls), Tags(cls))

\* The outcome of a derivation: the new class is added when the tag applies
\* to it; when the tag is refused nothing is left of the new class and the
\* exception ends the run.
Derive(return_class, tags) ==
    /\ pc' = IF tags.st = "ok" THEN "derived" ELSE "refused"
    /\ res' = IF tags.st = "ok" THEN Ok(PyStr(return_class.name), <<>>)
              ELSE tags
    /\ classes' = IF tags.st = "ok"
                      THEN Append(classes,
                                  [return_class EXCEPT !.tags = tags.value])
                  ELSE classes

\* Abstract.explicit tagging cls itself instead of a subclass of it.
explicit_InPlace(cls, number, tag_class) ==
    LET tags == ExplicitCall(number, tag_class, Tags(cls))
    IN  /\ pc' = IF tags.st = "ok" THEN "derived" ELSE "refused"
        /\ res' = IF tags.st = "ok" THEN Ok(PyStr(cls), <<>>) ELSE tags
        /\ classes' = IF tags.st = "ok"
                          THEN [classes EXCEPT ![ClassIndex(cls)].tags =
                                                   tags.value]
                      ELSE classes

\* Abstract.explicit
explicit(cls, number, tag_class) ==
    LET name == DerivedName(cls, "explicit", number, tag_class)
        return_class == Subclass(name, cls)
    IN  Derive(return_class,
               ExplicitCall(number, tag_class, return_class.tags))

\* Abstract.implicit
implicit(cls, number, tag_class) ==
    LET name == DerivedName(cls, "implicit", number, tag_class)
        return_class == Subclass(name, cls)
    IN  Derive(return_class,
               ImplicitCall(number, tag_class, return_class.tags))

\* The classes of the library that new ones are derived from, beside the
\* derived ones.
BaseClasses == {"Integer", "Any", "DummySequence"}

\* The derived classes.
DerivedClasses ==
    {classes[i].name : i \in (Len(InitClasses) + 1)..Len(classes)}

TagClasses == {UNIVERSAL, APPLICATION, CONTEXT_SPECIFIC, PRIVATE}

\* A derivation is made while fewer than MaxDerived classes were derived.
CanDerive ==
    /\ pc \in {"init", "derived"}
    /\ Len(classes) < Len(InitClasses) + MaxDerived

DeriveExplicit ==
    /\ CanDerive
    /\ \E cls \in BaseClasses \cup DerivedClasses,
          number \in 0..MaxTagNumber, tag_class \in TagClasses :
           /\ explicit(cls, number, tag_class)
           /\ arg' = [op |-> "explicit", cls |-> cls, number |-> number,
                      tag_class |-> tag_class]
    /\ UNCHANGED <<obj, wire, cls_components, heap>>

DeriveImplicit ==
    /\ CanDerive
    /\ \E cls \in BaseClasses \cup DerivedClasses,
          number \in 0..MaxTagNumber, tag_class \in TagClasses :
           /\ implicit(cls, number, tag_class)
           /\ arg' = [op |-> "implicit", cls |-> cls, number |-> number,
                      tag_class |-> tag_class]
    /\ UNCHANGED <<obj, wire, cls_components, heap>>

TagNext ==
    \/ DeriveExplicit
    \/ DeriveImplicit

TagSpec == Init /\ [][TagNext]_vars

----------------------------------------------------------------------------
(* Instances that share objects.  A Python variable, a dict entry and the  *)
(* default attribute of a Component hold a reference to an instance: here  *)
(* the mutable instances (the lists and the Sequences that hold them) are  *)
(* cells of the heap, and a Sequence holds a reference to its list-valued  *)
(* field.                                                                  *)

\* A reference to the instance of class cls in cell addr of the heap.
Ref(cls, addr) == [py |-> "inst", type |-> cls, ref |-> addr]
IsRef(x) == x.py = "inst" /\ "ref" \in DOMAIN x

\* The instance with the references in its fields followed in heap h.
ResolveIn(h, self) ==
    [self EXCEPT !.dict = {<<p[1], IF IsRef(p[2]) THEN h[p[2].ref] ELSE p[2]>> :
                              p \in @}]

\* The heap after a new Sequence instance is stored: a list that was built
\* for its field (by the constructor of the field's type) is a new object
\* too, a list that was passed or defaulted is the object it already was.
Store(self) ==
    LET Stored(items) ==
            IF items = None \/ IsRef(items) THEN Append(heap, self)
            ELSE Append(Append(heap, items),
                        [self EXCEPT !.dict =
                             Put(@, "items", Ref(items.type, Len(heap) + 1))])
    IN  Stored(Get(Val(self), "items"))

\* The cells that hold Sequence instances, and the ones that hold lists.
Holders == {a \in 1..Len(heap) : Kind(heap[a].type) = "Sequence"}
Lists == {a \in 1..Len(heap) : Kind(heap[a].type) = "SequenceOf"}

\* After the class definitions: the default of HolderSequence's items is
\* the one object Component.__init__ built, which the component refers to.
AliasInit ==
    /\ pc = "init"
    /\ obj = None
    /\ wire = <<>>
    /\ res = NoResult
    /\ arg = None
    /\ classes = InitClasses
    /\ heap = <<InitComponents["HolderSequence"][1].default>>
    /\ cls_components =
           [InitComponents EXCEPT !["HolderSequence"][1].default =
                                      Ref("SequenceOfInteger", 1)]

\* Buffers decoded as a HolderSequence: items omitted, and items given.
HolderBuffers == {<<48, 0>>, <<48, 5, 48, 3, 2, 1, 5>>}

\* x = SequenceOfInteger([i])
NewList ==
    /\ Len(heap) < MaxHeap
    /\ \E i \in {1, 5} :
           /\ arg' = [op |-> "list", value |-> PyList(<<PyInt(i)>>)]
           /\ res' = New("SequenceOfInteger", PyList(<<PyInt(i)>>), None, TRUE)
    /\ pc' = "list"
    /\ heap' = Append(heap, res'.value)
    /\ UNCHANGED <<obj, wire, classes, cls_components>>

\* h = HolderSequence({}), HolderSequence({"items": [5]}) or
\* HolderSequence({"items": x}) for a list x made before.
NewHolder ==
    /\ Len(heap) + 2 <= MaxHeap
    /\ \E value \in {PyDict({}), PyDict({<<"items", PyList(<<PyInt(5)>>)>>})}
                    \cup {PyDict({<<"items", Ref(heap[a].type, a)>>}) :
                             a \in Lists \ {1}} :
           /\ arg' = [op |-> "new", value |-> value]
           /\ res' = New("HolderSequence", value, None, TRUE)
    /\ pc' = "new"
    /\ heap' = Store(res'.value)
    /\ UNCHANGED <<obj, wire, classes, cls_components>>

\* h = HolderSequence.decode(buf, strict=strict)
DecodeHolder ==
    /\ Len(heap) + 2 <= MaxHeap
    /\ \E buf \in HolderBuffers, strict \in BOOLEAN :
           /\ arg' = [op |-> "decode", buf |-> buf, strict |-> strict]
           /\ res' = decode("HolderSequence", buf, strict)
    /\ pc' = "decoded"
    /\ heap' = IF res'.st = "ok" THEN Store(res'.value) ELSE heap
    /\ UNCHANGED <<obj, wire, classes, cls_components>>

\* The list operations: h["items"].insert(index, value),
\* h["items"][index] = value and del h["items"][index].
ListOp(op, self, index, value) ==
    CASE op = "insert" -> insert(self, index, value)
      [] op = "setitem" -> Repeated__setitem__(self, index, value)
      [] op = "delitem" -> Repeated__delitem__(self, index)

\* One holder's list is changed in place.
MutateItems ==
    /\ \E self \in Holders, op \in {"insert", "setitem", "delitem"},
          index \in 0..1 :
           /\ op = "insert" =>
                  Len(heap[Get(Val(heap[self]), "items").ref].list)
                      < MaxListLen
           /\ arg' = [op |-> op, self |-> self, index |-> index]
           /\ res' = ListOp(op, heap[Get(Val(heap[self]), "items").ref],
                            index, PyInt(7))
           /\ heap' = IF res'.st = "ok"
                          THEN [heap EXCEPT
                                    ![Get(Val(heap[self]), "items").ref] =
                                        res'.value]
                      ELSE heap
    /\ pc' = "mutated"
    /\ UNCHANGED <<obj, wire, classes, cls_components>>

AliasNext == NewList \/ NewHolder \/ DecodeHolder \/ MutateItems

AliasSpec == AliasInit /\ [][AliasNext]_vars

----------------------------------------------------------------------------
(* The fields of a Sequence instance read, set and deleted by name.        *)

\* Keys used on a Sequence: the declared names and an undeclared one.
FieldKeys == {"sel", "flag", "opt", "val", "zz"}

\* Values assigned to a field.
FieldValues ==
    {PyInt(2), PyBool(TRUE), PyStr(<<121>>), IntegerOf(5), BooleanOf(FALSE)}

\* obj = cls(value) for the Sequence classes
NewSequence ==
    /\ pc = "init"
    /\ \E cls \in {"DummySequence", "OptionalSequence"} :
           \E value \in Values(cls) :
               /\ res' = New(cls, value, None, TRUE)
               /\ arg' = [op |-> "new", cls |-> cls, value |-> value]
    /\ obj' = res'.value
    /\ pc' = IF res'.st = "ok" THEN "sequence" ELSE "init"
    /\ UNCHANGED <<wire, classes, cls_components, heap>>

\* obj[key]
GetField ==
    /\ pc = "sequence"
    /\ \E key \in FieldKeys :
           /\ res' = Sequence__getitem__(obj, key)
           /\ arg' = [op |-> "getitem", key |-> key]
    /\ UNCHANGED <<pc, obj, wire, classes, cls_components, heap>>

\* obj[key] = value
SetField ==
    /\ pc = "sequence"
    /\ \E key \in FieldKeys, value \in FieldValues :
           /\ res' = Sequence__setitem__(obj, key, value)
           /\ arg' = [op |-> "setitem", key |-> key, value |-> value]
    /\ obj' = IF res'.st = "ok" THEN res'.value ELSE obj
    /\ UNCHANGED <<pc, wire, classes, cls_components, heap>>

\* del obj[key]
DelField ==
    /\ pc = "sequence"
    /\ \E key \in FieldKeys :
           /\ res' = Sequence__delitem__(obj, key)
           /\ arg' = [op |-> "delitem", key |-> key]
    /\ obj' = IF res'.st = "ok" THEN res'.value ELSE obj
    /\ UNCHANGED <<pc, wire, classes, cls_components, heap>>

FieldNext == NewSequence \/ GetField \/ SetField \/ DelField

FieldSpec == Init /\ [][FieldNext]_vars

----------------------------------------------------------------------------
(* The integer and length primitives applied to numbers.                   *)

\* Integers given to encode_int.
PrimInts ==
    (-MaxPrimInt..MaxPrimInt)
    \cup {32767, 32768, 65535, 65536, -32768, -32769, -65536, -65537,
          8388607, 8388608, -8388608, -8388609}

\* Lengths given to encode_length.
PrimLengths == (0..MaxLength) \cup {65535, 65536, 16777215, 16777216}

\* wire = encode_int(value, signed)
EncodeInt ==
    /\ pc = "init"
    /\ \E value \in PrimInts, signed \in BOOLEAN :
           /\ signed \/ value >= 0
           /\ arg' = [op |-> "encode_int", value |-> value, signed |-> signed]
           /\ res' = encode_int(value, signed)
    /\ wire' = res'.value
    /\ pc' = "encoded_int"
    /\ UNCHANGED <<obj, classes, cls_components, heap>>

\* decode_int(wire, signed)
DecodeInt ==
    /\ pc = "encoded_int"
    /\ res' = decode_int(wire, arg.signed)
    /\ pc' = "decoded_int"
    /\ UNCHANGED <<obj, wire, arg, classes, cls_components, heap>>

\* wire = encode_length(length)
EncodeLength ==
    /\ pc = "init"
    /\ \E length \in PrimLengths :
           /\ arg' = [op |-> "encode_length", length |-> length]
           /\ wire' = encode_length(length)
    /\ res' = NoResult
    /\ pc' = "encoded_length"
    /\ UNCHANGED <<obj, classes, cls_components, heap>>

\* read_length(wire)
ReadLength ==
    /\ pc = "encoded_length"
    /\ res' = read_length(wire)
    /\ pc' = "read_length"
    /\ UNCHANGED <<obj, wire, arg, classes, cls_components, heap>>

PrimitiveNext == EncodeInt \/ DecodeInt \/ EncodeLength \/ ReadLength

PrimitiveSpec == Init /\ [][PrimitiveNext]_vars

----------------------------------------------------------------------------
(* The content decoders of Boolean and Integer applied to bare content.    *)

ContentBytes == {0, 1, 127, 128, 255}
ContentBuffers == UNION {[1..n -> ContentBytes] : n \in 0..MaxContentLen}
ContentClasses == {"Boolean", "Integer"}
ContentValues(cls) ==
    IF cls = "Boolean" THEN {PyBool(b) : b \in BOOLEAN}
    ELSE {PyInt(i) : i \in {-129, -128, -1, 0, 127, 128, 255, 256}}

\* cls(serialized_value=buf, strict=strict)
DecodeContent ==
    /\ pc = "init"
    /\ \E cls \in ContentClasses, buf \in ContentBuffers, strict \in BOOLEAN :
           /\ arg' = [op |-> "decode", cls |-> cls, strict |-> strict]
           /\ wire' = buf
           /\ res' = New(cls, None, PyStr(buf), strict)
    /\ obj' = res'.value
    /\ pc' = "content"
    /\ UNCHANGED <<classes, cls_components, heap>>

\* cls(value=value)
NewContent ==
    /\ pc = "init"
    /\ \E cls \in ContentClasses :
           \E value \in ContentValues(cls) :
               /\ arg' = [op |-> "new", cls |-> cls, strict |-> TRUE]
               /\ res' = New(cls, value, None, TRUE)
    /\ obj' = res'.value
    /\ pc' = "content"
    /\ UNCHANGED <<wire, classes, cls_components, heap>>

\* obj.encode()
EncodeContent ==
    /\ pc = "content"
    /\ res.st = "ok"
    /\ res' = encode(obj)
    /\ wire' = res'.value
    /\ pc' = "encoded_content"
    /\ UNCHANGED <<obj, arg, classes, cls_components, heap>>

ContentNext == DecodeContent \/ NewContent \/ EncodeContent

ContentSpec == Init /\ [][ContentNext]_vars

----------------------------------------------------------------------------
(* Buffers written by hand, read and decoded, and encoded again.           *)

\* The classes the buffers are decoded against.
WireClasses ==
    {"Boolean", "Integer", "OctetString", "BitString", "IntegerExplicit0",
     "HolderSequence"}

\* The buffers given to a class: encodings of its values, and the same
\* with a length in the long form, a length that disagrees with the bytes
\* that follow, or another tag inside.
WireBuffers(cls) ==
    CASE cls = "Boolean" ->
            {<<1, 1, 255>>, <<1, 1, 0>>, <<1, 1, 1>>, <<1, 129, 1, 255>>,
             <<1, 2, 255, 255>>}
      [] cls = "Integer" ->
            {<<2, 1, 5>>, <<2, 129, 1, 5>>, <<2, 130, 0, 1, 5>>,
             <<2, 2, 0, 5>>, <<2, 2, 0, 128>>, <<2, 1>>, <<2, 0>>}
      [] cls = "OctetString" ->
            {<<4, 1, 120>>, <<4, 129, 1, 120>>, <<4, 0>>, <<4, 129, 0>>,
             <<4, 128>>}
      [] cls = "BitString" ->
            {<<3, 1, 0>>, <<3, 129, 1, 0>>, <<3, 2, 0, 255>>,
             <<3, 2, 4, 240>>, <<3, 2, 4, 255>>, <<3, 129, 2, 4, 240>>}
      [] cls = "IntegerExplicit0" ->
            {<<160, 3, 2, 1, 5>>, <<160, 2, 2, 1, 5>>, <<160, 1, 2, 1, 5>>,
             <<160, 4, 2, 1, 5, 0>>, <<160, 4, 2, 1, 5>>,
             <<160, 3, 2, 1, 5, 0>>, <<160, 3, 4, 1, 120>>,
             <<160, 129, 3, 2, 1, 5>>, <<2, 1, 5>>}
      [] cls = "HolderSequence" ->
            {<<48, 0>>, <<48, 5, 160, 3, 2, 1, 5>>,
             <<48, 5, 160, 3, 4, 1, 120>>, <<48, 5, 48, 3, 2, 1, 5>>,
             <<48, 10, 48, 3, 2, 1, 5, 160, 3, 2, 1, 5>>,
             <<48, 10, 48, 3, 2, 1, 5, 160, 3, 4, 1, 120>>,
             <<48, 3, 4, 1, 120>>, <<48, 5, 48, 3, 4, 1, 120>>}

\* cls.read(buf, strict=strict)
ReadWire ==
    /\ pc = "init"
    /\ \E cls \in WireClasses, strict \in BOOLEAN :
           \E buf \in WireBuffers(cls) :
               /\ arg' = [op |-> "read", cls |-> cls, strict |-> strict]
               /\ wire' = buf
               /\ res' = read(cls, buf, strict)
    /\ obj' = res'.value
    /\ pc' = "wire"
    /\ UNCHANGED <<classes, cls_components, heap>>

\* cls.decode(buf, strict=strict)
DecodeWire ==
    /\ pc = "init"
    /\ \E cls \in WireClasses, strict \in BOOLEAN :
           \E buf \in WireBuffers(cls) :
               /\ arg' = [op |-> "decode", cls |-> cls, strict |-> strict]
               /\ wire' = buf
               /\ res' = decode(cls, buf, strict)
    /\ obj' = res'.value
    /\ pc' = "wire"
    /\ UNCHANGED <<classes, cls_components, heap>>

\* obj.encode(), of the instance that was read or decoded
EncodeWire ==
    /\ pc = "wire"
    /\ res.st = "ok"
    /\ res' = encode(obj)
    /\ pc' = "wire_encoded"
    /\ UNCHANGED <<obj, wire, arg, classes, cls_components, heap>>

WireNext == ReadWire \/ DecodeWire \/ EncodeWire

WireSpec == Init /\ [][WireNext]_vars

----------------------------------------------------------------------------
(* Properties of the codec.                                                *)

\* obj encodes, and to the bytes w.
EncodesTo(self, w) ==
    self # None /\ encode(self).st = "ok" /\ encode(self).value = w

\* The last operation decoded, against obj's own class, the bytes obj
\* encodes to.
DecodedOwnEncoding ==
    /\ pc = "decoded"
    /\ obj # None
    /\ arg.cls = obj.type
    /\ EncodesTo(obj, wire)

\* C1: round trip by value: for every value that can be constructed and
\* encoded, strict decoding of its encoding succeeds and returns an
\* instance equal to it.
RoundTripByValue ==
    (DecodedOwnEncoding /\ arg.strict)
        => (res.st = "ok" /\ Eq(res.value, obj))

\* The proper prefixes of buf that cls reads as one value with nothing left.
FramedPrefixes(cls, buf, strict) ==
    {n \in 0..(Len(buf) - 1) :
        LET r == read(cls, Take(buf, n), strict)
        IN  r.st = "ok" /\ r.rest = <<>>}

\* C2: whole-buffer decoding: decode fails with ASN1Error when the buffer
\* is one fully framed value followed by at least one more byte, in both
\* modes, and succeeds only when read leaves nothing.
WholeBufferDecoding ==
    pc = "decoded" =>
        /\ FramedPrefixes(arg.cls, wire, arg.strict) # {}
               => res.st = "ASN1Error"
        /\ res.st = "ok" =>
               LET r == read(arg.cls, wire, arg.strict)
               IN  r.st = "ok" /\ r.rest = <<>> /\ r.value = res.value

\* A Choice value followed by one more byte was decoded leniently, and the
\* decoding failed.
WholeBufferDecodingWitness ==
    /\ pc = "decoded"
    /\ ~arg.strict
    /\ arg.cls = "DummyChoice"
    /\ Len(wire) - 1 \in FramedPrefixes(arg.cls, wire, arg.strict)
    /\ res.st = "ASN1Error"

\* The encoding of the Sequence self leaves the field of component out.
Omits(self, component) ==
    LET value == Get(Val(self), component.name)
    IN  \/ value = None
        \/ component.encoded_default = PyStr(encode(value).value)

\* No field of the Sequence self that has a defined-by selector is set.
NoAnySet(self) ==
    \A i \in 1..Len(SequenceComponents(self.type)) :
        LET component == SequenceComponents(self.type)[i]
        IN  component.defined_by # None
                => Get(Val(self), component.name) = None

\* The contents of buf inside the tags of cls, when the framing is whole.
Contents(cls, buf) ==
    LET s == StripTags(Tags(cls), buf, 0)
    IN  IF s.st = "ok" /\ Len(s.rest) = s.value THEN Ok(s.rest, <<>>)
        ELSE Raise("ASN1Error")

\* The first field of the Sequence class cls is mandatory and buf, a wholly
\* framed value of cls, does not begin with its tag.
MandatoryFieldMissing(cls, buf, strict) ==
    LET component == SequenceComponents(cls)[1]
    IN  /\ ~component.optional
        /\ Contents(cls, buf).st = "ok"
        /\ read(component.value_type, Contents(cls, buf).value, strict).st
               = "ASN1TagError"

\* C3: Sequence decode of absent fields: when the wire omits an optional
\* field (explicitly optional or carrying a default, an Any field with a
\* defined-by selector included) decode succeeds and sets the field to its
\* declared default, or to absent when it has none; when the tag of a
\* mandatory field is missing, decode fails with ASN1TagError or ASN1Error.
AbsentFieldsDecodeToDefault ==
    (pc = "decoded" /\ Kind(arg.cls) = "Sequence") =>
        /\ (DecodedOwnEncoding /\ NoAnySet(obj)) =>
               /\ res.st = "ok"
               /\ \A i \in 1..Len(SequenceComponents(arg.cls)) :
                      LET component == SequenceComponents(arg.cls)[i]
                      IN  Omits(obj, component) =>
                              Get(Val(res.value), component.name)
                                  = component.default
        /\ MandatoryFieldMissing(arg.cls, wire, arg.strict)
               => res.st \in {"ASN1TagError", "ASN1Error"}

\* The individual encodings of the elements of the list self.
ElementEncodings(self) ==
    [i \in 1..Len(Val(self)) |-> encode(Val(self)[i]).value]

\* The one-to-one rearrangements of the indices 1..n.
Rearrangements(n) ==
    {f \in [1..n -> 1..n] : \A i, j \in 1..n : f[i] = f[j] => i = j}

\* s holds byte strings in ascending lexicographic order.
Ascending(s) ==
    \A i, j \in 1..Len(s) : i < j => ~StrLess(s[j], s[i])

\* C6: SetOf canonical encoding: the contents of an encoded SetOf are the
\* encodings of its elements, every one kept, concatenated in ascending
\* lexicographic byte order, so that every SetOf whose list is a
\* permutation of this one encodes to the same bytes; a SequenceOf
\* concatenates the element encodings in list order.
SetOfCanonicalEncoding ==
    (pc = "encoded" /\ res.st = "ok") =>
        /\ Kind(obj.type) = "SetOf" =>
               LET encodings == ElementEncodings(obj)
                   n == Len(encodings)
               IN  /\ \E f \in Rearrangements(n) :
                          LET sorted == [i \in 1..n |-> encodings[f[i]]]
                          IN  /\ Ascending(sorted)
                              /\ wire = WrapTags(Join(sorted), Tags(obj.type))
                   /\ \A f \in Rearrangements(n) :
                          encode(Inst(obj.type,
                                      [i \in 1..n |-> Val(obj)[f[i]]])).value
                              = wire
        /\ Kind(obj.type) = "SequenceOf" =>
               wire = WrapTags(Join(ElementEncodings(obj)), Tags(obj.type))

\* A SetOf built from the list [5, 1] has been encoded, and so has a
\* SequenceOf of the same list.
SetOfCanonicalEncodingWitness ==
    /\ pc = "encoded"
    /\ res.st = "ok"
    /\ Kind(obj.type) = "SetOf"
    /\ Len(Val(obj)) = 2
    /\ Val(Val(obj)[1]) = 5
    /\ Val(Val(obj)[2]) = 1
    /\ wire = <<49, 6, 2, 1, 1, 2, 1, 5>>

\* The field of component of the Sequence self is emitted by its encoding.
Emitted(self, component) ==
    LET value == Get(Val(self), component.name)
    IN  /\ value # None
        /\ \/ component.default = None
           \/ encode(value).value # encode(component.default).value

\* A mandatory field of the Sequence self has no value.
MandatoryFieldUnset(self) ==
    \E i \in 1..Len(SequenceComponents(self.type)) :
        LET component == SequenceComponents(self.type)[i]
        IN  /\ Get(Val(self), component.name) = None
            /\ ~component.optional

\* C7: Sequence encode with default elision: the encoding emits, in schema
\* order, exactly the fields that have a value whose encoding differs from
\* the encoding of the declared default (a field without default that has
\* a value is always emitted); when a mandatory field has no value, encode
\* fails with ASN1Error and produces no bytes.
SequenceEncodeElidesDefaults ==
    (pc = "encoded" /\ Kind(obj.type) = "Sequence") =>
        LET components == SequenceComponents(obj.type)
            emitted == [i \in 1..Len(components) |->
                           IF Emitted(obj, components[i])
                               THEN encode(Get(Val(obj),
                                               components[i].name)).value
                           ELSE <<>>]
        IN  IF MandatoryFieldUnset(obj)
                THEN res.st = "ASN1Error" /\ wire = <<>>
            ELSE /\ res.st = "ok"
                 /\ wire = WrapTags(Join(emitted), Tags(obj.type))

\* A DummySequence whose flag holds its default FALSE and whose opt is set
\* has been encoded: flag is left out, sel and opt are emitted.
SequenceEncodeElidesDefaultsWitness ==
    /\ pc = "encoded"
    /\ res.st = "ok"
    /\ obj.type = "DummySequence"
    /\ Get(Val(obj), "flag") = BooleanOf(FALSE)
    /\ Get(Val(obj), "opt") # None
    /\ wire = <<48, 6, 2, 1, 1, 4, 1, 120>>

\* buf holds a whole tag-length-value: a tag, a length and at least as many
\* bytes as the length announces.
Framed(buf) ==
    /\ buf # <<>>
    /\ read_length(Tail(buf)).st = "ok"
    /\ Len(read_length(Tail(buf)).rest) >= read_length(Tail(buf)).value

\* The Choice class cls was read from a buffer that begins with a tag.
ChoiceWasRead ==
    pc = "read" /\ Kind(arg.cls) = "Choice" /\ wire # <<>>

\* When the outermost tag of the buffer read is that of an alternative and
\* the read succeeds, the instance has exactly the key of that alternative,
\* holding the value read with the alternative's class, and no other key.
MatchedAlternativeIsSet ==
    LET t == TagRead(wire).value
        key == Get(tag_map(arg.cls), t)
        spec == Get(ChoiceComponents(arg.cls), key)
    IN  (t \in Keys(tag_map(arg.cls)) /\ res.st = "ok") =>
            /\ read(spec, wire, arg.strict).st = "ok"
            /\ Val(res.value) = {<<key, read(spec, wire, arg.strict).value>>}
            /\ res.rest = read(spec, wire, arg.strict).rest

\* C4 as stated: reading a Choice from a buffer whose outermost tag is not
\* the outermost tag of any alternative fails with ASN1TagError; when it is
\* the tag of alternative A, the instance has exactly key A set.
ChoiceDispatchByTag ==
    ChoiceWasRead =>
        /\ TagRead(wire).value \notin Keys(tag_map(arg.cls))
               => res.st = "ASN1TagError"
        /\ MatchedAlternativeIsSet

\* C4, amended: the tag is looked up only after the length has been read
\* and the framing checked, so a buffer whose outermost tag matches no
\* alternative fails with ASN1TagError when it holds a whole
\* tag-length-value and with ASN1Error when it is cut short; a matched
\* alternative A gives an instance with exactly key A set.
ChoiceDispatchAfterFraming ==
    ChoiceWasRead =>
        /\ TagRead(wire).value \notin Keys(tag_map(arg.cls)) =>
               IF Framed(wire) THEN res.st = "ASN1TagError"
               ELSE res.st = "ASN1Error"
        /\ MatchedAlternativeIsSet

\* A Choice was read from a buffer cut short whose tag is that of no
\* alternative, and the read failed with ASN1Error.
ChoiceDispatchAfterFramingWitness ==
    /\ ChoiceWasRead
    /\ TagRead(wire).value \notin Keys(tag_map(arg.cls))
    /\ ~Framed(wire)
    /\ res.st = "ASN1Error"

\* C8 as stated: constructing an instance with neither a value nor a
\* serialized buffer fails with TypeError, and so does constructing it
\* with both.
ExactlyOneInitializer ==
    (pc = "new" /\ (arg.value = None) = (arg.serialized_value = None))
        => res.st = "TypeError"

\* C8, amended: construction with neither fails with TypeError; with both,
\* the serialized buffer is used and the value is ignored, except for Any,
\* which takes a string value as its buffer and keeps any other value as
\* its decoded value beside the serialized buffer.
SerializedValueWins ==
    pc = "new" =>
        /\ (arg.value = None /\ arg.serialized_value = None)
               => res.st = "TypeError"
        /\ (arg.value # None /\ arg.serialized_value # None) =>
               IF Kind(arg.cls) # "Any"
                   THEN res = New(arg.cls, None, arg.serialized_value,
                                  arg.strict)
               ELSE IF arg.value.py = "str"
                   THEN res = New(arg.cls, arg.value, None, arg.strict)
               ELSE /\ res.st = "ok"
                    /\ Val(res.value) = Val(arg.serialized_value)
                    /\ res.value.decoded_value = arg.value

\* An Integer was constructed from the value 5 together with the
\* serialized buffer 01, and holds 1.
SerializedValueWinsWitness ==
    /\ pc = "new"
    /\ arg.cls = "Integer"
    /\ arg.value = PyInt(5)
    /\ arg.serialized_value = PyStr(<<1>>)
    /\ res.st = "ok"
    /\ Val(res.value) = 1

\* C5: Choice single-alternative invariant: however a Choice was
\* constructed (from a value or from bytes) and whatever alternatives were
\* then set and deleted by name, at most one alternative is set; after
\* obj[k] = v with v not None, exactly k is set.
ChoiceHasOneAlternative ==
    pc = "choice" =>
        /\ Cardinality(Val(obj)) <= 1
        /\ (arg.op = "setitem" /\ res.st = "ok" /\ arg.value # None)
               => Keys(Val(obj)) = {arg.key}
        /\ (arg.op = "setitem" /\ res.st = "ok" /\ arg.value = None)
               => Val(obj) = {}

\* Alternative b was set on a Choice and is the only one set.
ChoiceHasOneAlternativeWitness ==
    /\ pc = "choice"
    /\ arg.op = "setitem"
    /\ arg.key = "b"
    /\ arg.value = PyBool(TRUE)
    /\ res.st = "ok"
    /\ Keys(Val(obj)) = {"b"}

\* C9: Any.decode_inner is one-shot: on an Any that holds only raw bytes
\* it decodes them against the type supplied and caches the result; a call
\* made when a decoded value is already cached is rejected with
\* RuntimeError and leaves the cached value in place.
DecodeInnerIsOneShot ==
    [][(pc = "any" /\ pc' = "any") =>
           IF obj.decoded_value = None
               THEN LET d == decode(arg'.value_type, Val(obj), arg'.strict)
                    IN  d.st = "ok" => obj'.decoded_value = d.value
           ELSE res'.st = "RuntimeError" /\ obj' = obj]_vars

\* The tag list new is old with only its last tag replaced by one of the
\* given number and class that keeps the encoding bit of the replaced tag.
LastTagReplaced(new, old, number, tag_class) ==
    /\ old # <<>>
    /\ Len(new) = Len(old)
    /\ \A i \in 1..(Len(old) - 1) : new[i] = old[i]
    /\ new[Len(new)].number = number
    /\ new[Len(new)].tag_class = tag_class
    /\ new[Len(new)].encoding = old[Len(old)].encoding

\* C10: dynamic tag derivation is pure on tag lists: base.explicit(n, c)
\* returns a new class whose tag list is that of base with the constructed
\* tag (c, n) appended, base.implicit(n, c) a new class whose tag list is
\* that of base with only the last tag replaced by (c, n), keeping the
\* encoding bit of the replaced tag; the tag lists of base and of every
\* class derived before are unchanged, whether the derivation returns or
\* is refused.
TagDerivationIsPure ==
    [][pc' \in {"derived", "refused"} =>
           /\ \A i \in 1..Len(classes) : classes'[i] = classes[i]
           /\ res'.st # "ok" => classes' = classes
           /\ res'.st = "ok" =>
                  /\ Len(classes') = Len(classes) + 1
                  /\ classes'[Len(classes')].name = Val(res'.value)
                  /\ classes'[Len(classes')].root = Kind(arg'.cls)
                  /\ IF arg'.op = "explicit"
                         THEN classes'[Len(classes')].tags
                                  = Tags(arg'.cls)
                                        \o <<[number |-> arg'.number,
                                              tag_class |-> arg'.tag_class,
                                              encoding |-> CONSTRUCTED]>>
                     ELSE LastTagReplaced(classes'[Len(classes')].tags,
                                          Tags(arg'.cls), arg'.number,
                                          arg'.tag_class)]_vars

\* A class was derived with implicit() from a class itself derived with
\* explicit().
TagDerivationIsPureWitness ==
    /\ pc = "derived"
    /\ arg.op = "implicit"
    /\ arg.cls \in DerivedClasses
    /\ res.st = "ok"
    /\ Len(classes) = Len(InitClasses) + 2
    /\ Len(classes[Len(classes)].tags) = 2
    /\ classes[Len(classes)].tags[2].encoding = CONSTRUCTED

\* The value property and the encoding of the Sequence in cell a of heap h.
ObservableIn(h, a) == ValueOf(ResolveIn(h, h[a]))
EncodingIn(h, a) == encode(ResolveIn(h, h[a]))

\* The default held by the items component of HolderSequence, in heap h.
DefaultIn(h) == h[cls_components["HolderSequence"][1].default.ref]

\* C11: value instances are independent: when the list field of one
\* Sequence instance is changed in place (insert, item assignment, item
\* deletion), every other Sequence instance keeps its value and its
\* encoding, and the schema's component keeps its default.  This covers
\* instances decoded from buffers that omit the defaulted field and
\* instances constructed from the same sub-value.
InstancesAreIndependent ==
    [][pc' = "mutated" =>
          /\ \A a \in Holders \ {arg'.self} :
                 /\ ObservableIn(heap', a) = ObservableIn(heap, a)
                 /\ EncodingIn(heap', a) = EncodingIn(heap, a)
          /\ DefaultIn(heap') = DefaultIn(heap)]_vars

\* The value is one the field's schema converts.
Convertible(cls, key, value) ==
    _convert_single_value(KeyMapGet(cls, key), value).st = "ok"

\* C12: Sequence field access by name: setting a declared field to a value
\* its schema converts succeeds and the field then reads as the converted
\* value, and deleting a declared field succeeds;
\* setting or deleting an undeclared name fails, and a failed call leaves
\* the instance as it was.
SequenceFieldAccess ==
    /\ (pc = "sequence" /\ arg.op = "setitem"
            /\ arg.key \in key_map(obj.type)
            /\ Convertible(obj.type, arg.key, arg.value))
        => /\ res.st = "ok"
           /\ Sequence__getitem__(obj, arg.key).value
                  = _convert_single_value(KeyMapGet(obj.type, arg.key),
                                          arg.value).value
    /\ (pc = "sequence" /\ arg.op = "delitem"
            /\ arg.key \in key_map(obj.type))
        => res.st = "ok"
    /\ (pc = "sequence" /\ arg.op \in {"setitem", "delitem"}
            /\ arg.key \notin key_map(obj.type))
        => res.st = "KeyError"

RECURSIVE BigEndian(_)
\* The number that a string of bytes writes in base 256.
BigEndian(bytes) ==
    IF bytes = <<>> THEN 0
    ELSE BigEndian(SubSeq(bytes, 1, Len(bytes) - 1)) * 256 + bytes[Len(bytes)]

\* buf is the length n in its one form: one byte up to 127, else 0x80|k
\* and the k bytes of n without a leading zero.
IsLengthForm(buf, n) ==
    IF n <= 127 THEN buf = <<n>>
    ELSE /\ Len(buf) >= 2
         /\ buf[1] = 128 + (Len(buf) - 1)
         /\ buf[2] # 0
         /\ BigEndian(Tail(buf)) = n

\* C13: primitive round trips: decode_int(encode_int(v, signed), signed) is
\* v for every integer v (v >= 0 when unsigned); encode_length(n) is one
\* byte when n <= 127 and else 0x80|k followed by the k-byte minimal
\* unsigned encoding of n, and read_length gives back (n, empty).
PrimitiveRoundTrips ==
    /\ pc = "decoded_int" =>
           res.st = "ok" /\ res.value = arg.value /\ res.rest = <<>>
    /\ pc \in {"encoded_length", "read_length"} =>
           IsLengthForm(wire, arg.length)
    /\ pc = "read_length" =>
           res.st = "ok" /\ res.value = arg.length /\ res.rest = <<>>

\* 128 is encoded with a leading zero byte and decoded back.
PrimitiveRoundTripsWitness ==
    /\ pc = "decoded_int"
    /\ arg.value = 128 /\ arg.signed
    /\ wire = <<0, 128>>
    /\ res.value = 128

\* The two integers that buf can write in Len(buf) bytes: read as an
\* unsigned number and read in two's complement.
Written(buf) == {BigEndian(buf), BigEndian(buf) - 256 ^ Len(buf)}

\* buf is an output of encode_int(v, signed=True).
IsEncodedInt(buf) == \E v \in Written(buf) : encode_int(v, TRUE).value = buf

\* buf has a leading byte that the byte after it makes redundant.
RedundantLeading(buf) ==
    /\ Len(buf) >= 2
    /\ \/ buf[1] = 0 /\ buf[2] < 128
       \/ buf[1] = 255 /\ buf[2] >= 128

\* C14: Integer minimality is never relaxed: decoding Integer content
\* fails with ASN1Error on empty content, on a leading 0x00 followed by a
\* byte < 128 and on a leading 0xFF followed by a byte >= 128, identically
\* in strict and lenient mode; the content accepted is the same in both
\* modes and is exactly the set of outputs of encode_int(v, signed=True).
IntegerMinimalityNeverRelaxed ==
    (pc = "content" /\ arg.op = "decode" /\ arg.cls = "Integer") =>
        LET SameAs(other) ==
                /\ other.st = res.st
                /\ res.st = "ok" => Val(other.value) = Val(res.value)
        IN  /\ res.st \in {"ok", "ASN1Error"}
            /\ (wire = <<>> \/ RedundantLeading(wire)) => res.st = "ASN1Error"
            /\ res.st = "ok" <=> IsEncodedInt(wire)
            /\ res.st = "ok" => encode_int(Val(res.value), TRUE).value = wire
            /\ SameAs(New("Integer", None, PyStr(wire), ~arg.strict))

\* The lenient decoding of 00 01 is refused.
IntegerMinimalityNeverRelaxedWitness ==
    /\ pc = "content" /\ arg.op = "decode" /\ arg.cls = "Integer"
    /\ ~arg.strict
    /\ wire = <<0, 1>>
    /\ res.st = "ASN1Error"

\* C15: Boolean content decoding: content of a length other than one byte
\* is rejected in both modes; 0xFF decodes to true and 0x00 to false in
\* both modes; any other single byte is rejected with ASN1Error in strict
\* mode and decodes to true in lenient mode; encoding always emits 0xFF
\* for true and 0x00 for false.
BooleanContentDecoding ==
    /\ (pc = "content" /\ arg.op = "decode" /\ arg.cls = "Boolean") =>
           /\ Len(wire) # 1 => res.st = "ASN1Error"
           /\ wire = <<255>> => res.st = "ok" /\ Val(res.value) = TRUE
           /\ wire = <<0>> => res.st = "ok" /\ Val(res.value) = FALSE
           /\ (Len(wire) = 1 /\ wire[1] \notin {0, 255}) =>
                  IF arg.strict THEN res.st = "ASN1Error"
                  ELSE res.st = "ok" /\ Val(res.value) = TRUE
    /\ (pc = "encoded_content" /\ arg.cls = "Boolean") =>
           /\ res.st = "ok"
           /\ wire = <<1, 1, IF Val(obj) THEN 255 ELSE 0>>

\* The lenient decoding of 01 is true and is encoded as FF.
BooleanContentDecodingWitness ==
    /\ pc = "encoded_content" /\ arg.op = "decode" /\ arg.cls = "Boolean"
    /\ ~arg.strict
    /\ Val(obj) = TRUE
    /\ wire = <<1, 1, 255>>

\* The wire is the encoding of a constructed DummySequence and it was
\* decoded against DummySequence.
DecodedDummySequence ==
    /\ pc = "decoded"
    /\ arg.cls = "DummySequence"
    /\ TypeIs(obj, "DummySequence")
    /\ EncodesTo(obj, wire)

\* The fields read from the wire by the first loop, before the Any fields
\* are resolved; the wire's tag and length take two bytes.
FieldsRead ==
    SequenceReadLoop(SequenceComponents("DummySequence"), Drop(wire, 2),
                     arg.strict, {})

\* The lookup table of the field val of DummySequence.
ValLookup == {<<1, "Integer">>, <<2, "Boolean">>}

\* The field val of the decoded Sequence is an Any holding raw, with the
\* given decoded value.
ValIs(raw, decoded_value) ==
    /\ res.st = "ok"
    /\ Get(Val(res.value), "val") = AnyInst("Any", raw, decoded_value)

\* C16: defined-by resolution in Sequence decode: after all fields are
\* read, a defined-by Any field (one that was read from the wire) whose
\* selector maps to a schema in the lookup table has its captured bytes
\* decoded against that schema; if that inner decode fails, strict mode
\* makes the whole Sequence decode fail, while lenient mode makes it
\* succeed with the field left as an undecoded Any holding the same raw
\* bytes; when the table has no entry the field stays undecoded in both
\* modes.
DefinedByResolution ==
    DecodedDummySequence =>
        LET Resolved(raw, inner) ==
                IF inner.st = "ok" THEN ValIs(raw, inner.value)
                ELSE IF arg.strict THEN res.st = inner.st
                ELSE ValIs(raw, None)
            OfSelector(sel, raw) ==
                IF \E p \in ValLookup : p[1] = sel
                    THEN Resolved(raw,
                                  decode((CHOOSE p \in ValLookup :
                                              p[1] = sel)[2],
                                         raw, arg.strict))
                ELSE ValIs(raw, None)
            OfFields(first) ==
                (first.st = "ok" /\ Get(first.value, "val") # None) =>
                    OfSelector(Val(Get(first.value, "sel")),
                               Val(Get(first.value, "val")))
        IN  OfFields(FieldsRead)

\* A lenient decoding where the selector names Integer and the Any field
\* holds a Boolean: the field is left undecoded.
DefinedByResolutionWitness ==
    /\ DecodedDummySequence
    /\ ~arg.strict
    /\ Val(Get(FieldsRead.value, "sel")) = 1
    /\ Get(FieldsRead.value, "val") = AnyInst("Any", <<1, 1, 255>>, None)
    /\ ValIs(<<1, 1, 255>>, None)

\* DummyChoice.decode(wire, strict) was the last operation and the wire
\* begins with the outermost tag of an alternative.
ChoiceDecodedByTag ==
    /\ arg # None /\ arg.op = "decode"
    /\ pc \in {"init", "choice"}
    /\ TagRead(wire).st = "ok"
    /\ TagRead(wire).value \in Keys(tag_map("DummyChoice"))

\* C17: the Choice fast path equals the alternative's own read: for a
\* Choice decoded with a given strict flag, the value stored for the
\* matched alternative equals what the alternative's read(buf, strict)
\* returns with that same flag, whether the alternative has one tag layer
\* or several; in particular the lenient decoding of a Choice whose matched
\* alternative is a Boolean with content byte 0x01 yields true.
ChoiceFastPathEqualsRead ==
    ChoiceDecodedByTag =>
        LET SameAs(key, alt) ==
                IF alt.st = "ok" /\ alt.rest = <<>>
                    THEN res.st = "ok" /\ Val(res.value) = {<<key, alt.value>>}
                ELSE res.st # "ok"
            OfKey(key) ==
                SameAs(key, read(Get(ChoiceComponents("DummyChoice"), key),
                                 wire, arg.strict))
        IN  /\ OfKey(Get(tag_map("DummyChoice"), TagRead(wire).value))
            /\ (wire = <<1, 1, 1>> /\ ~arg.strict) =>
                   /\ res.st = "ok"
                   /\ Val(res.value) = {<<"b", Inst("Boolean", TRUE)>>}

\* The schemas with one tag and a scalar value.
ScalarClasses == {"Boolean", "Integer", "OctetString", "BitString"}

\* C18: strict decoding of scalar schemas is DER-only: for every single-tag
\* scalar schema and every buffer b, if decode(b, strict=True) succeeds
\* then encoding the decoded value gives b again; in particular a length is
\* accepted only in its minimal form.
StrictScalarDecodingIsDER ==
    (pc = "wire_encoded" /\ arg.op = "decode" /\ arg.strict
        /\ arg.cls \in ScalarClasses) =>
        /\ res.st = "ok" /\ res.value = wire
        /\ IsLengthForm(SubSeq(wire, 2, Len(wire) - Len(read_length(Tail(wire)).rest)),
                        read_length(Tail(wire)).value)

\* The outermost tag of a class.
OutermostTag(cls) == Tags(cls)[Len(Tags(cls))]

\* The size of the tag-length-value at the head of buf: the tag, the
\* length octets and as many bytes as the length says.
TLVSize(buf) ==
    Len(buf) - Len(read_length(Tail(buf)).rest) + read_length(Tail(buf)).value

\* buf has two tag layers, each with a tag and a length that can be read:
\* the tags of IntegerExplicit0.
TwoLayers(buf) ==
    /\ TagRead(buf).st = "ok"
    /\ TagRead(buf).value = OutermostTag("IntegerExplicit0")
    /\ read_length(Tail(buf)).st = "ok"
    /\ TagRead(read_length(Tail(buf)).rest).st = "ok"
    /\ TagRead(read_length(Tail(buf)).rest).value = OutermostTag("Integer")
    /\ read_length(Tail(read_length(Tail(buf)).rest)).st = "ok"

\* C19: nested tag layers are length-consistent: for a schema with two tag
\* layers, read succeeds only if the outer layer's declared length equals
\* the total size (tag, length octets and content) of the TLV it wraps, and
\* the returned tail begins exactly after the outermost TLV's declared
\* span; a buffer whose outer declared length is smaller or larger than
\* the wrapped TLV is rejected with ASN1Error.
NestedLayersLengthConsistent ==
    (pc = "wire" /\ arg.op = "read" /\ arg.cls = "IntegerExplicit0"
        /\ TwoLayers(wire)) =>
        LET Consistent(outer) ==
                IF outer.value = TLVSize(outer.rest)
                    THEN res.st = "ok" =>
                             res.rest = Drop(outer.rest, outer.value)
                ELSE res.st = "ASN1Error"
        IN  Consistent(read_length(Tail(wire)))

\* The fields of HolderSequence before num read from the content of the
\* wire, whose tag and length take two bytes: the result holds the bytes
\* at the position of num.
BeforeNum ==
    SequenceReadLoop(SubSeq(SequenceComponents("HolderSequence"), 1, 1),
                     Drop(wire, 2), arg.strict, {})

\* All the fields of HolderSequence read from the content of the wire: num
\* is the last.
HolderFieldsRead ==
    SequenceReadLoop(SequenceComponents("HolderSequence"), Drop(wire, 2),
                     arg.strict, {})

\* C20: an optional Sequence field is treated as absent only on an
\* outer-tag mismatch: whenever Sequence decode substitutes the default
\* for an optional field without consuming bytes, the remaining wire at
\* that position is empty or does not start with the outermost tag of the
\* field's schema; an ASN1TagError raised deeper inside a field whose
\* outermost tag did match is not taken for the field being missing and
\* leaves the decode as that error.
OptionalAbsentOnlyOnOuterTagMismatch ==
    (pc = "wire" /\ arg.cls = "HolderSequence") =>
        LET Substituted(first) ==
                (first.st = "ok" /\ Get(first.value, "num") = None) =>
                    \/ first.rest = <<>>
                    \/ TagRead(first.rest).value
                           # OutermostTag("IntegerExplicit0")
            Deeper(before) ==
                (/\ before.st = "ok"
                 /\ before.rest # <<>>
                 /\ TagRead(before.rest).value
                        = OutermostTag("IntegerExplicit0")
                 /\ read("IntegerExplicit0", before.rest, arg.strict).st
                        = "ASN1TagError") =>
                    res.st = "ASN1TagError"
        IN  Substituted(HolderFieldsRead) /\ Deeper(BeforeNum)

====
